---- MODULE Spec2Model ----
(***************************************************************************)
(* joyparty/entity: the CRUD operations Load, Insert, Update, Upsert and   *)
(* Delete, with their lifecycle hooks, the read-through cache, the         *)
(* metadata cache and the statement cache.                                 *)
(*                                                                         *)
(* One behaviour follows one mapped type on one DB handle.  A call runs    *)
(* as a sequence of steps (pc); every step is one function of the source   *)
(* and records the calls it makes on the collaborators (the entity's       *)
(* hooks, the DB handle, the cacher) in `calls`.  The DB handle and the    *)
(* hooks are external: what they answer is an input of the step.  The      *)
(* cacher keeps what it was given (cache/memory.go) and may fail.          *)
(***************************************************************************)
EXTENDS Integers, Sequences, FiniteSets, TLC

VARIABLES
    typ,            \* the type of the behaviour's entities: fields, method set
    driverName,     \* db.DriverName() of the behaviour's DB handle
    DefaultCacher,  \* cache.go:14
    entities,       \* entity.go:45, the metadata cache: type -> Metadata
    statements,     \* part_010:26-30, per command: key -> statement text
    store,          \* the cacher's content: key -> data
    op,             \* the operation in progress or just returned
    pc,             \* the step the call is at
    ent,            \* the entity passed to the call (its fields)
    opt,            \* what ent.CacheOption() returns
    calls,          \* the collaborator calls the call has made so far
    lastID,         \* doInsert's result, kept for Insert's return
    ret,            \* what the call returned
    nops,           \* calls started so far
    args,           \* the arguments of the helper called (helper.go, part_005)
    frame           \* the locals of the helper called: named result, cursor

vars == <<typ, driverName, DefaultCacher, entities, statements, store,
          op, pc, ent, opt, calls, lastID, ret, nops, args, frame>>

----------------------------------------------------------------------------
(* Bounds *)

MaxOps == 2     \* calls in one behaviour
MaxVal == 2     \* field values are 1..MaxVal

Vals == 1..MaxVal

----------------------------------------------------------------------------
(* Errors.  An error is its innermost cause (base), the contexts wrapped    *)
(* around it with %w (ctx, outermost first) and the uniqueness-violation    *)
(* patterns its text contains (pats).                                      *)

NilErr == [base |-> "", ctx |-> <<>>, pats |-> {}]

NewErr(base) == [base |-> base, ctx |-> <<>>, pats |-> {}]

Wrap(prefix, err) == [err EXCEPT !.ctx = <<prefix>> \o @]

ErrConflict == NewErr("record conflict")

ErrNotFound == NewErr("record not found")

ErrNoRows == NewErr("sql: no rows in result set")

PatPostgres == "duplicate key value violates unique constraint"
PatMysql == "Duplicate entry"
PatSqlite3 == "UNIQUE constraint failed"

DriverErr(pats) == [base |-> "driver error", ctx |-> <<>>, pats |-> pats]

\* errors.Is(err, target) along the %w chain
ErrorsIs(err, target) == err # NilErr /\ err.base = target.base

IsNotFound(err) ==
    IF err = NilErr THEN FALSE
    ELSE ErrorsIs(err, ErrNoRows) \/ ErrorsIs(err, ErrNotFound)

----------------------------------------------------------------------------
(* Events, commands, drivers *)

EventBeforeInsert == 1
EventAfterInsert == 2
EventBeforeUpdate == 3
EventAfterUpdate == 4
EventBeforeDelete == 5
EventAfterDelete == 6

commandSelect == "select"
commandInsert == "insert"
commandUpdate == "update"
commandUpsert == "upsert"
commandDelete == "delete"

Commands == {commandSelect, commandInsert, commandUpdate, commandUpsert, commandDelete}

driverMysql == "mysql"
driverPostgres == "postgres"
driverSqlite3 == "sqlite3"

driverAlias == [pgx |-> driverPostgres, sqlite |-> driverSqlite3]

DriverNames == {"postgres", "mysql", "sqlite3", "pgx", "sqlite", "oracle"}

\* dbDriver returning the name of the handle as it is
DriverNameAsGiven(dv) == dv

dbDriver(dv) == IF dv \in DOMAIN driverAlias THEN driverAlias[dv] ELSE dv

\* isConflictError without the switch on the driver: any dialect's pattern
\* counts
isConflictErrorAnyDialect(err, driver) ==
    err.pats \cap {PatPostgres, PatMysql, PatSqlite3} # {}

isConflictError(err, driver) ==
    CASE driver = driverPostgres -> PatPostgres \in err.pats
      [] driver = driverMysql -> PatMysql \in err.pats
      [] driver = driverSqlite3 -> PatSqlite3 \in err.pats
      [] OTHER -> FALSE

----------------------------------------------------------------------------
(* Mapped types.  A field is its struct name, its db name and the option   *)
(* tokens of its db tag; a type also says which hook interfaces it         *)
(* implements and whether it is Cacheable.  accountRow, User,              *)
(* GenernalEntity, NoPrimaryKeyEntity and EmptyEntity (whose fields are    *)
(* all tagged "-") are the types of the repository's examples and          *)
(* tests; Draft, Setting and Document are types a caller may               *)
(* map: one without a primary key that has hooks and a cache, one with     *)
(* every hook interface and a key that is not autoIncrement, one with a    *)
(* RETURNING column and after-hooks only.                                  *)

Fld(sf, dbf, opts) == [StructField |-> sf, Name |-> dbf, Options |-> opts]

AllEvents == {EventBeforeInsert, EventAfterInsert, EventBeforeUpdate,
              EventAfterUpdate, EventBeforeDelete, EventAfterDelete}

TypeInfo ==
    [accountRow |->
        [Name |-> "accountRow", PkgPath |-> "entity_test", TableName |-> "accounts",
         Fields |-> <<Fld("ID", "id", {"primaryKey", "autoIncrement"}),
                      Fld("Name", "name", {}),
                      Fld("CreatedAt", "created_at", {"refuseUpdate"}),
                      Fld("UpdatedAt", "updated_at", {})>>,
         Hooks |-> {EventBeforeInsert, EventBeforeUpdate}, EventHook |-> FALSE,
         Cacheable |-> TRUE, Cacher |-> "nil", Key |-> "account:1"],
     User |->
        [Name |-> "User", PkgPath |-> "main", TableName |-> "users",
         Fields |-> <<Fld("ID", "user_id", {"primaryKey", "autoIncrement"}),
                      Fld("CreateAt", "create_at", {"refuseUpdate"}),
                      Fld("UpdateAt", "update_at", {})>>,
         Hooks |-> {}, EventHook |-> TRUE,
         Cacheable |-> TRUE, Cacher |-> "own", Key |-> "user:entity:1"],
     GenernalEntity |->
        [Name |-> "GenernalEntity", PkgPath |-> "entity", TableName |-> "genernal",
         Fields |-> <<Fld("ID", "id", {"primaryKey", "autoIncrement"}),
                      Fld("ID2", "id2", {"primaryKey"}),
                      Fld("Name", "name", {}),
                      Fld("CreateAt", "create_at", {"refuseUpdate", "returningInsert"}),
                      Fld("Version", "version", {"returning"}),
                      Fld("Extra", "extra", {})>>,
         Hooks |-> {}, EventHook |-> FALSE,
         Cacheable |-> FALSE, Cacher |-> "nil", Key |-> ""],
     NoPrimaryKeyEntity |->
        [Name |-> "NoPrimaryKeyEntity", PkgPath |-> "entity", TableName |-> "no_primary_key",
         Fields |-> <<Fld("ID", "int", {}), Fld("Name", "name", {})>>,
         Hooks |-> {}, EventHook |-> FALSE,
         Cacheable |-> FALSE, Cacher |-> "nil", Key |-> ""],
     EmptyEntity |->
        [Name |-> "EmptyEntity", PkgPath |-> "entity", TableName |-> "emtpy",
         Fields |-> <<>>,
         Hooks |-> {}, EventHook |-> FALSE,
         Cacheable |-> FALSE, Cacher |-> "nil", Key |-> ""],
     Draft |->
        [Name |-> "Draft", PkgPath |-> "app", TableName |-> "drafts",
         Fields |-> <<Fld("Title", "title", {})>>,
         Hooks |-> {}, EventHook |-> TRUE,
         Cacheable |-> TRUE, Cacher |-> "nil", Key |-> "draft:1"],
     Setting |->
        [Name |-> "Setting", PkgPath |-> "app", TableName |-> "settings",
         Fields |-> <<Fld("Key", "key", {"primary_key"}),
                      Fld("Value", "value", {})>>,
         Hooks |-> AllEvents, EventHook |-> TRUE,
         Cacheable |-> TRUE, Cacher |-> "nil", Key |-> "setting:1"],
     Document |->
        [Name |-> "Document", PkgPath |-> "app", TableName |-> "documents",
         Fields |-> <<Fld("ID", "id", {"primaryKey"}),
                      Fld("Title", "title", {}),
                      Fld("Version", "version", {"returning"})>>,
         Hooks |-> {EventAfterInsert, EventAfterUpdate, EventAfterDelete},
         EventHook |-> FALSE,
         Cacheable |-> FALSE, Cacher |-> "nil", Key |-> ""]]

Types == DOMAIN TypeInfo

CacheKeys == {TypeInfo[n].Key : n \in {u \in Types : TypeInfo[u].Cacheable}}

Has(opts, tokens) == opts \cap tokens # {}

\* entity.go:169-202: the flags are the union of what each token sets
getColumns(t) ==
    [i \in 1..Len(t.Fields) |->
        LET fi == t.Fields[i]
            o == fi.Options
        IN [StructField |-> fi.StructField,
            DBField |-> fi.Name,
            PrimaryKey |-> Has(o, {"primaryKey", "primary_key"}),
            AutoIncrement |-> Has(o, {"autoIncrement", "auto_increment"}),
            RefuseUpdate |-> Has(o, {"primaryKey", "primary_key",
                                     "refuseUpdate", "refuse_update", "returning",
                                     "returningUpdate", "returning_update",
                                     "autoIncrement", "auto_increment"}),
            ReturningInsert |-> Has(o, {"returning", "returningInsert", "returning_insert"}),
            ReturningUpdate |-> Has(o, {"returning", "returningUpdate", "returning_update"})]]

IsPrimaryKey(col) == col.PrimaryKey

NoMetadata ==
    [Type |-> [PkgPath |-> "", Name |-> ""], TableName |-> "", Columns |-> <<>>, PrimaryKeys |-> <<>>,
     hasReturningInsert |-> FALSE, hasReturningUpdate |-> FALSE]

\* a NewMetadata that accepts a type without primary key
NewMetadataWithoutKey(t) ==
    LET columns == getColumns(t)
    IN IF Len(columns) = 0
       THEN [md |-> NoMetadata, err |-> NewErr("empty entity")]
       ELSE [md |-> [Type |-> [PkgPath |-> t.PkgPath, Name |-> t.Name],
                     TableName |-> t.TableName,
                     Columns |-> columns,
                     PrimaryKeys |-> SelectSeq(columns, IsPrimaryKey),
                     hasReturningInsert |-> \E i \in 1..Len(columns) : columns[i].ReturningInsert,
                     hasReturningUpdate |-> \E i \in 1..Len(columns) : columns[i].ReturningUpdate],
             err |-> NilErr]

\* entity.go:120-151: [md, err]
NewMetadata(t) ==
    LET columns == getColumns(t)
        md == [Type |-> [PkgPath |-> t.PkgPath, Name |-> t.Name],
               TableName |-> t.TableName,
               Columns |-> columns,
               PrimaryKeys |-> SelectSeq(columns, IsPrimaryKey),
               hasReturningInsert |-> \E i \in 1..Len(columns) : columns[i].ReturningInsert,
               hasReturningUpdate |-> \E i \in 1..Len(columns) : columns[i].ReturningUpdate]
    IN IF Len(md.Columns) = 0
       THEN [md |-> NoMetadata, err |-> NewErr("empty entity")]
       ELSE IF Len(md.PrimaryKeys) = 0
       THEN [md |-> NoMetadata, err |-> NewErr("primary key not found")]
       ELSE [md |-> md, err |-> NilErr]

\* entity.go:153-167: [md, err, entities], entities being the cache afterwards
getMetadata(cache, t) ==
    IF t.Name \in DOMAIN cache
    THEN [md |-> cache[t.Name], err |-> NilErr, entities |-> cache]
    ELSE LET r == NewMetadata(t)
         IN IF r.err # NilErr
            THEN [md |-> NoMetadata, err |-> r.err, entities |-> cache]
            ELSE [md |-> r.md, err |-> NilErr, entities |-> (t.Name :> r.md) @@ cache]

----------------------------------------------------------------------------
(* Statement text, as the sequence of its lexemes.  BQ stands for the      *)
(* backtick and DQ for the double quote.                                   *)

BQ == "BACKTICK"
DQ == "\""

\* part_010:408-413
quoteColumn(name, driver) ==
    IF driver = driverMysql THEN <<BQ, name, BQ>> ELSE <<DQ, name, DQ>>

RECURSIVE JoinSeqs(_, _)
JoinSeqs(parts, sep) ==
    IF Len(parts) = 0 THEN <<>>
    ELSE IF Len(parts) = 1 THEN parts[1]
    ELSE parts[1] \o <<sep>> \o JoinSeqs(Tail(parts), sep)

\* strings.ReplaceAll(s, old, ""), s being the sequence of its characters
RemoveAll(s, old) == SelectSeq(s, LAMBDA c : c # old)

\* strings.Split(s, sep): the pieces of s between the separators, one piece
\* (s itself, empty or not) where there is none
RECURSIVE Split(_, _)
Split(s, sep) ==
    LET at == {i \in 1..Len(s) : s[i] = sep}
    IN IF at = {} THEN <<s>>
       ELSE LET i == CHOOSE k \in at : \A j \in at : k <= j
            IN <<SubSeq(s, 1, i - 1)>> \o Split(SubSeq(s, i + 1, Len(s)), sep)

\* quoteIdentifier without the removal of the quote characters in the name
quoteIdentifierKeepingQuotes(name, driver) ==
    LET symbol == IF driver = driverMysql THEN BQ ELSE DQ
        parts == Split(name, ".")
        Quoted(s) == IF s = <<"*">> THEN s ELSE <<symbol>> \o s \o <<symbol>>
    IN JoinSeqs([i \in 1..Len(parts) |-> Quoted(parts[i])], ".")

\* part_010:415-431.  The name is the sequence of its characters, where a
\* run of characters that are no dot, quote character or star may stand as
\* one element (a table name such as "rows")
quoteIdentifier(name, driver) ==
    LET symbol == IF driver = driverMysql THEN BQ ELSE DQ
        parts == Split(RemoveAll(name, symbol), ".")
        Quoted(s) == IF s = <<"*">> THEN s ELSE <<symbol>> \o s \o <<symbol>>
    IN JoinSeqs([i \in 1..Len(parts) |-> Quoted(parts[i])], ".")

\* the lexemes Op(col) of the columns that satisfy Keep, in order
MapCols(cols, Keep(_), Op(_)) ==
    LET kept == SelectSeq(cols, Keep)
    IN [i \in 1..Len(kept) |-> Op(kept[i])]

AllCols(col) == TRUE

Placeholder(col) == <<":" \o col.DBField>>

\* the conjunction  "pk" = :pk AND ...  over the primary keys
WherePk(md, driver) ==
    LET Eq(col) == quoteColumn(col.DBField, driver) \o <<"=">> \o Placeholder(col)
    IN JoinSeqs(MapCols(md.PrimaryKeys, AllCols, Eq), "AND")

\* a SELECT whose WHERE clause names the first primary key only
newSelectStatementFirstKey(md, driver) ==
    LET Q(col) == quoteColumn(col.DBField, driver)
    IN <<"SELECT">> \o JoinSeqs(MapCols(md.Columns, AllCols, Q), ",")
       \o <<"FROM">> \o quoteIdentifier(<<md.TableName>>, driver)
       \o <<"WHERE">> \o quoteColumn(md.PrimaryKeys[1].DBField, driver)
       \o <<"=">> \o Placeholder(md.PrimaryKeys[1]) \o <<"LIMIT 1">>

\* part_010:265-282
newSelectStatement(md, driver) ==
    LET Q(col) == quoteColumn(col.DBField, driver)
    IN <<"SELECT">> \o JoinSeqs(MapCols(md.Columns, AllCols, Q), ",")
       \o <<"FROM">> \o quoteIdentifier(<<md.TableName>>, driver)
       \o <<"WHERE">> \o WherePk(md, driver) \o <<"LIMIT 1">>

\* an INSERT that also lists the autoIncrement columns
newInsertStatementWithAuto(md, driver) ==
    LET Q(col) == quoteColumn(col.DBField, driver)
        IsRet(col) == col.ReturningInsert
        IsIns(col) == ~col.ReturningInsert
        returnings == MapCols(md.Columns, IsRet, Q)
    IN <<"INSERT INTO">> \o quoteIdentifier(<<md.TableName>>, driver)
       \o <<"(">> \o JoinSeqs(MapCols(md.Columns, IsIns, Q), ",") \o <<")">>
       \o <<"VALUES", "(">> \o JoinSeqs(MapCols(md.Columns, IsIns, Placeholder), ",")
       \o <<")">>
       \o (IF Len(returnings) > 0
           THEN <<"RETURNING">> \o JoinSeqs(returnings, ",") ELSE <<>>)

\* part_010:284-311
newInsertStatement(md, driver) ==
    LET Q(col) == quoteColumn(col.DBField, driver)
        IsRet(col) == col.ReturningInsert
        IsIns(col) == ~col.ReturningInsert /\ ~col.AutoIncrement
        returnings == MapCols(md.Columns, IsRet, Q)
    IN <<"INSERT INTO">> \o quoteIdentifier(<<md.TableName>>, driver)
       \o <<"(">> \o JoinSeqs(MapCols(md.Columns, IsIns, Q), ",") \o <<")">>
       \o <<"VALUES", "(">> \o JoinSeqs(MapCols(md.Columns, IsIns, Placeholder), ",")
       \o <<")">>
       \o (IF Len(returnings) > 0
           THEN <<"RETURNING">> \o JoinSeqs(returnings, ",") ELSE <<>>)

\* an UPDATE that returns every column that the update may not set
newUpdateStatementReturningRefused(md, driver) ==
    LET Q(col) == quoteColumn(col.DBField, driver)
        IsRet(col) == col.ReturningUpdate \/ (col.RefuseUpdate /\ ~col.PrimaryKey)
        IsSet(col) == ~col.ReturningUpdate /\ ~col.RefuseUpdate
        Eq(col) == Q(col) \o <<"=">> \o Placeholder(col)
        returnings == MapCols(md.Columns, IsRet, Q)
    IN <<"UPDATE">> \o quoteIdentifier(<<md.TableName>>, driver) \o <<"SET">>
       \o JoinSeqs(MapCols(md.Columns, IsSet, Eq), ",")
       \o (IF Len(md.PrimaryKeys) > 0 THEN <<"WHERE">> \o WherePk(md, driver) ELSE <<>>)
       \o (IF Len(returnings) > 0
           THEN <<"RETURNING">> \o JoinSeqs(returnings, ",") ELSE <<>>)

\* part_010:313-344
newUpdateStatement(md, driver) ==
    LET Q(col) == quoteColumn(col.DBField, driver)
        IsRet(col) == col.ReturningUpdate
        IsSet(col) == ~col.ReturningUpdate /\ ~col.RefuseUpdate
        Eq(col) == Q(col) \o <<"=">> \o Placeholder(col)
        returnings == MapCols(md.Columns, IsRet, Q)
    IN <<"UPDATE">> \o quoteIdentifier(<<md.TableName>>, driver) \o <<"SET">>
       \o JoinSeqs(MapCols(md.Columns, IsSet, Eq), ",")
       \o (IF Len(md.PrimaryKeys) > 0 THEN <<"WHERE">> \o WherePk(md, driver) ELSE <<>>)
       \o (IF Len(returnings) > 0
           THEN <<"RETURNING">> \o JoinSeqs(returnings, ",") ELSE <<>>)

\* part_010:346-393
newUpsertStatement(md, driver) ==
    LET Q(col) == quoteColumn(col.DBField, driver)
        IsIns(col) == ~col.AutoIncrement /\ ~col.ReturningInsert
        IsUpd(col) == ~col.PrimaryKey /\ ~col.RefuseUpdate /\ ~col.ReturningUpdate
        IsRet(col) == col.ReturningInsert \/ col.ReturningUpdate
        Eq(col) == Q(col) \o <<"=">> \o Placeholder(col)
        updateStmt == JoinSeqs(MapCols(md.Columns, IsUpd, Eq), ",")
        returningColumns == MapCols(md.Columns, IsRet, Q)
    IN <<"INSERT INTO">> \o quoteIdentifier(<<md.TableName>>, driver)
       \o <<"(">> \o JoinSeqs(MapCols(md.Columns, IsIns, Q), ",") \o <<")">>
       \o <<"VALUES", "(">> \o JoinSeqs(MapCols(md.Columns, IsIns, Placeholder), ",")
       \o <<")">>
       \o (IF driver = driverMysql
           THEN <<"ON CONFLICT KEY UPDATE">> \o updateStmt
           ELSE <<"ON CONFLICT", "(">> \o JoinSeqs(MapCols(md.PrimaryKeys, AllCols, Q), ",")
                \o <<")", "DO UPDATE SET">> \o updateStmt)
       \o (IF Len(returningColumns) > 0
           THEN <<"RETURNING">> \o JoinSeqs(returningColumns, ",") ELSE <<>>)

\* part_010:395-406
newDeleteStatement(md, driver) ==
    <<"DELETE FROM">> \o quoteIdentifier(<<md.TableName>>, driver)
    \o <<"WHERE">> \o WherePk(md, driver)

newStatement(cmd, md, driver) ==
    CASE cmd = commandSelect -> newSelectStatement(md, driver)
      [] cmd = commandInsert -> newInsertStatement(md, driver)
      [] cmd = commandUpdate -> newUpdateStatement(md, driver)
      [] cmd = commandUpsert -> newUpsertStatement(md, driver)
      [] cmd = commandDelete -> newDeleteStatement(md, driver)

statementKey(md, driver) ==
    md.Type.PkgPath \o "." \o md.Type.Name \o "#" \o driver

\* part_010:229-263: [stmt, statements], statements being the caches afterwards
getStatement(caches, cmd, md, driver) ==
    LET m == caches[cmd]
        key == statementKey(md, driver)
    IN IF key \in DOMAIN m
       THEN [stmt |-> m[key], statements |-> caches]
       ELSE LET stmt == newStatement(cmd, md, driver)
            IN [stmt |-> stmt,
                statements |-> [caches EXCEPT ![cmd] = (key :> stmt) @@ m]]

----------------------------------------------------------------------------
(* A call and its collaborators *)

Ops == {"Load", "Insert", "Update", "Upsert", "Delete"}

NoOption ==
    [Cacher |-> "nil", Key |-> "", Expiration |-> 0, Compress |-> FALSE,
     Disable |-> FALSE]

\* the values CacheOption() of an entity of type t may return; Compress is
\* not read when the key is empty (cache.go:134-136)
CacheOptions(t) ==
    IF ~t.Cacheable THEN {NoOption}
    ELSE {o \in {[Cacher |-> t.Cacher, Key |-> k, Expiration |-> 0,
                  Compress |-> c, Disable |-> d] :
                    k \in {"", t.Key}, c \in BOOLEAN, d \in BOOLEAN} :
            o.Key = "" => ~o.Compress}

\* one call on a collaborator: the entity's hooks ("entity"), the DB handle
\* with the rows it gives ("db"), the sql.Result of an exec ("result"), the
\* cacher ("cacher")
\* err is what the call returned; data the bytes a cacher call read, wrote or
\* removed, or the row a query gave; out and n what a statement did (its
\* outcome, the rows it affected); n of LastInsertId the id it gave
Called(to, fn, ev, arg, stmt, err) ==
    [to |-> to, fn |-> fn, ev |-> ev, arg |-> arg, stmt |-> stmt, err |-> err,
     data |-> [enc |-> "", val |-> 0], out |-> "", n |-> 0]

\* what a hook or a cacher method may return
HookResults == {NilErr, NewErr("hook failed"), ErrConflict}

CacherResults == {NilErr, NewErr("cacher failed")}

\* the texts a driver error may carry
ErrTexts == {{}, {PatPostgres}, {PatMysql}, {PatSqlite3}}

\* what a row-returning query may do: fail; end without a row (norows), or
\* with rows.Next() false after an iteration error (nexterr); give a row that
\* does not scan (scanerr); give a row (row), or a row and then a non-nil
\* rows.Err() (rowerr)
QueryOutcomes ==
    {[k |-> "error", pats |-> p, val |-> 0] : p \in ErrTexts}
    \cup {[k |-> x, pats |-> {}, val |-> 0] : x \in {"norows", "nexterr", "scanerr"}}
    \cup {[k |-> x, pats |-> {}, val |-> v] : x \in {"row", "rowerr"}, v \in Vals}

\* what an exec may do: fail, or give a sql.Result with its RowsAffected (n)
\* and its LastInsertId (id, or an error)
ExecOutcomes ==
    {[k |-> "error", pats |-> p, n |-> 0, id |-> 0, idok |-> FALSE] : p \in ErrTexts}
    \cup {[k |-> "result", pats |-> {}, n |-> n, id |-> 0, idok |-> FALSE] : n \in 0..1}
    \cup {[k |-> "result", pats |-> {}, n |-> n, id |-> v, idok |-> TRUE] :
            n \in 0..1, v \in Vals}

\* the error the DB handle or its rows reported in outcome o
reported(o) ==
    CASE o.k = "error" -> DriverErr(o.pats)
      [] o.k \in {"nexterr", "rowerr"} -> DriverErr({})
      [] o.k = "scanerr" -> NewErr("scan failed")
      [] OTHER -> NilErr

\* part_010:95-109 (and 120-134, 162-176, 201-215): NamedQueryContext, then
\* Next, StructScan and rows.Err(): [err, scanned]
queryRow(o) ==
    CASE o.k = "error" -> [err |-> reported(o), scanned |-> FALSE]
      [] o.k \in {"norows", "nexterr"} -> [err |-> ErrNoRows, scanned |-> FALSE]
      [] o.k = "scanerr" -> [err |-> Wrap("scan struct", reported(o)), scanned |-> FALSE]
      [] o.k = "row" -> [err |-> NilErr, scanned |-> TRUE]
      [] o.k = "rowerr" -> [err |-> reported(o), scanned |-> TRUE]

\* the row of outcome o as the rows cursor holds it
rowData(o) ==
    IF o.k \in {"row", "rowerr"} THEN [enc |-> "row", val |-> o.val]
    ELSE [enc |-> "", val |-> 0]

Scan(e, o, q) == IF q.scanned THEN [e EXCEPT !.val = o.val] ELSE e

----------------------------------------------------------------------------
(* The operations: where a call goes after the step `at` gave r.           *)

Goto(p) == [pc |-> p, err |-> NilErr, id |-> 0]

Return(err, id) == [pc |-> "done", err |-> err, id |-> id]

\* Load without the return on a cache hit
LoadIgnoringHit(at, r) ==
    CASE at = "entry" ->
            IF typ.Cacheable THEN Goto("loadCache") ELSE Goto("doLoad")
      [] at = "loadCache" ->
            IF r.err # NilErr THEN Return(Wrap("load from cache", r.err), 0)
            ELSE Goto("doLoad")
      [] at = "doLoad" ->
            IF r.err # NilErr THEN Return(r.err, 0)
            ELSE IF typ.Cacheable THEN Goto("SaveCache")
            ELSE Return(NilErr, 0)
      [] at = "SaveCache" ->
            IF r.err # NilErr THEN Return(Wrap("save cache", r.err), 0)
            ELSE Return(NilErr, 0)

\* entity.go:245-269
Load(at, r) ==
    CASE at = "entry" ->
            IF typ.Cacheable THEN Goto("loadCache") ELSE Goto("doLoad")
      [] at = "loadCache" ->
            IF r.err # NilErr THEN Return(Wrap("load from cache", r.err), 0)
            ELSE IF r.loaded THEN Return(NilErr, 0)
            ELSE Goto("doLoad")
      [] at = "doLoad" ->
            IF r.err # NilErr THEN Return(r.err, 0)
            ELSE IF typ.Cacheable THEN Goto("SaveCache")
            ELSE Return(NilErr, 0)
      [] at = "SaveCache" ->
            IF r.err # NilErr THEN Return(Wrap("save cache", r.err), 0)
            ELSE Return(NilErr, 0)

\* entity.go:271-292
Insert(at, r) ==
    CASE at = "entry" -> Goto("beforeInsert")
      [] at = "beforeInsert" ->
            IF r.err # NilErr THEN Return(Wrap("before insert", r.err), 0)
            ELSE Goto("doInsert")
      [] at = "doInsert" ->
            IF r.err # NilErr
            THEN IF isConflictError(r.err, dbDriver(driverName))
                 THEN Return(ErrConflict, 0)
                 ELSE Return(r.err, 0)
            ELSE Goto("afterInsert")
      [] at = "afterInsert" ->
            IF r.err # NilErr THEN Return(Wrap("after insert", r.err), 0)
            ELSE Return(NilErr, lastID)

\* Update with the error of DeleteCache dropped
UpdateIgnoringCacheError(at, r) ==
    CASE at = "entry" -> Goto("beforeUpdate")
      [] at = "beforeUpdate" ->
            IF r.err # NilErr THEN Return(Wrap("before update", r.err), 0)
            ELSE Goto("doUpdate")
      [] at = "doUpdate" ->
            IF r.err # NilErr
            THEN IF isConflictError(r.err, dbDriver(driverName))
                 THEN Return(ErrConflict, 0)
                 ELSE Return(r.err, 0)
            ELSE IF typ.Cacheable THEN Goto("DeleteCache")
            ELSE Goto("afterUpdate")
      [] at = "DeleteCache" -> Goto("afterUpdate")
      [] at = "afterUpdate" ->
            IF r.err # NilErr THEN Return(Wrap("after update", r.err), 0)
            ELSE Return(NilErr, 0)

\* entity.go:294-320
Update(at, r) ==
    CASE at = "entry" -> Goto("beforeUpdate")
      [] at = "beforeUpdate" ->
            IF r.err # NilErr THEN Return(Wrap("before update", r.err), 0)
            ELSE Goto("doUpdate")
      [] at = "doUpdate" ->
            IF r.err # NilErr
            THEN IF isConflictError(r.err, dbDriver(driverName))
                 THEN Return(ErrConflict, 0)
                 ELSE Return(r.err, 0)
            ELSE IF typ.Cacheable THEN Goto("DeleteCache")
            ELSE Goto("afterUpdate")
      [] at = "DeleteCache" ->
            IF r.err # NilErr THEN Return(Wrap("delete cache", r.err), 0)
            ELSE Goto("afterUpdate")
      [] at = "afterUpdate" ->
            IF r.err # NilErr THEN Return(Wrap("after update", r.err), 0)
            ELSE Return(NilErr, 0)

\* Upsert calling the before-update hook whatever the before-insert hook gave
UpsertBothBeforeHooks(at, r) ==
    CASE at = "entry" -> Goto("beforeInsert")
      [] at = "beforeInsert" -> Goto("beforeUpdate")
      [] at = "beforeUpdate" ->
            IF r.err # NilErr THEN Return(Wrap("before upsert", r.err), 0)
            ELSE Goto("doUpsert")
      [] at = "doUpsert" ->
            IF r.err # NilErr THEN Return(r.err, 0)
            ELSE IF typ.Cacheable THEN Goto("DeleteCache")
            ELSE Goto("afterInsert")
      [] at = "DeleteCache" ->
            IF r.err # NilErr THEN Return(Wrap("delete cache", r.err), 0)
            ELSE Goto("afterInsert")
      [] at = "afterInsert" ->
            IF r.err # NilErr THEN Return(Wrap("after upsert", r.err), 0)
            ELSE Goto("afterUpdate")
      [] at = "afterUpdate" ->
            IF r.err # NilErr THEN Return(Wrap("after upsert", r.err), 0)
            ELSE Return(NilErr, 0)

\* entity.go:322-350
Upsert(at, r) ==
    CASE at = "entry" -> Goto("beforeInsert")
      [] at = "beforeInsert" ->
            IF r.err # NilErr THEN Return(Wrap("before upsert", r.err), 0)
            ELSE Goto("beforeUpdate")
      [] at = "beforeUpdate" ->
            IF r.err # NilErr THEN Return(Wrap("before upsert", r.err), 0)
            ELSE Goto("doUpsert")
      [] at = "doUpsert" ->
            IF r.err # NilErr THEN Return(r.err, 0)
            ELSE IF typ.Cacheable THEN Goto("DeleteCache")
            ELSE Goto("afterInsert")
      [] at = "DeleteCache" ->
            IF r.err # NilErr THEN Return(Wrap("delete cache", r.err), 0)
            ELSE Goto("afterInsert")
      [] at = "afterInsert" ->
            IF r.err # NilErr THEN Return(Wrap("after upsert", r.err), 0)
            ELSE Goto("afterUpdate")
      [] at = "afterUpdate" ->
            IF r.err # NilErr THEN Return(Wrap("after upsert", r.err), 0)
            ELSE Return(NilErr, 0)

\* Delete going on after a failed statement
DeleteAfterFailure(at, r) ==
    CASE at = "entry" -> Goto("beforeDelete")
      [] at = "beforeDelete" ->
            IF r.err # NilErr THEN Return(Wrap("before delete", r.err), 0)
            ELSE Goto("doDelete")
      [] at = "doDelete" ->
            IF typ.Cacheable THEN Goto("DeleteCache")
            ELSE Goto("afterDelete")
      [] at = "DeleteCache" ->
            IF r.err # NilErr THEN Return(Wrap("delete cache", r.err), 0)
            ELSE Goto("afterDelete")
      [] at = "afterDelete" ->
            IF r.err # NilErr THEN Return(Wrap("after delete", r.err), 0)
            ELSE Return(NilErr, 0)

\* entity.go:352-375
Delete(at, r) ==
    CASE at = "entry" -> Goto("beforeDelete")
      [] at = "beforeDelete" ->
            IF r.err # NilErr THEN Return(Wrap("before delete", r.err), 0)
            ELSE Goto("doDelete")
      [] at = "doDelete" ->
            IF r.err # NilErr THEN Return(r.err, 0)
            ELSE IF typ.Cacheable THEN Goto("DeleteCache")
            ELSE Goto("afterDelete")
      [] at = "DeleteCache" ->
            IF r.err # NilErr THEN Return(Wrap("delete cache", r.err), 0)
            ELSE Goto("afterDelete")
      [] at = "afterDelete" ->
            IF r.err # NilErr THEN Return(Wrap("after delete", r.err), 0)
            ELSE Return(NilErr, 0)

Flow(o, at, r) ==
    CASE o = "Load" -> Load(at, r)
      [] o = "Insert" -> Insert(at, r)
      [] o = "Update" -> Update(at, r)
      [] o = "Upsert" -> Upsert(at, r)
      [] o = "Delete" -> Delete(at, r)

Res(err) == [err |-> err, loaded |-> FALSE, id |-> 0]

\* no helper is being called
NoArgs == [db |-> "", name |-> <<>>]

NoFrame == [err |-> NilErr, tx |-> "", panicked |-> FALSE]

NoRet == [err |-> NilErr, lastID |-> 0]

----------------------------------------------------------------------------
(* Cache data.  The bytes under a key are NoData (nothing there), or the   *)
(* JSON text of an entity, or the gzip of such a text.                     *)

NoData == [enc |-> "", val |-> 0]

\* json.Marshal(ent)
Marshal(e) == [enc |-> "json", val |-> e.val]

\* cache.go:100-110: gzip of the data
Compress(data) == [data EXCEPT !.enc = "gzip"]

\* cache.go:124-144: [opt, err]
getCacheOption(o) ==
    IF o.Cacher = "nil" /\ DefaultCacher = "nil"
    THEN [opt |-> o, err |-> NewErr("nil default cacher")]
    ELSE LET c == IF o.Cacher = "nil" THEN [o EXCEPT !.Cacher = DefaultCacher] ELSE o
         IN IF c.Key = ""
            THEN [opt |-> c, err |-> NewErr("empty cache key")]
            ELSE [opt |-> [c EXCEPT !.Expiration = IF @ = 0 THEN 300 ELSE @],
                  err |-> NilErr]

\* cache.go:54-82: what loadCache makes of the data Get returned:
\* [err, loaded, val]
decodeCache(o, data) ==
    IF data = NoData THEN [err |-> NilErr, loaded |-> FALSE, val |-> 0]
    ELSE IF o.Compress /\ data.enc # "gzip"
    THEN [err |-> Wrap("uncompress data", NewErr("gzip: invalid header")),
          loaded |-> FALSE, val |-> 0]
    ELSE IF ~o.Compress /\ data.enc # "json"
    THEN [err |-> Wrap("json decode", NewErr("invalid character")),
          loaded |-> FALSE, val |-> 0]
    ELSE [err |-> NilErr, loaded |-> TRUE, val |-> data.val]

----------------------------------------------------------------------------
(* Steps *)

Init ==
    /\ typ \in {TypeInfo[n] : n \in Types}
    /\ driverName \in DriverNames
    /\ DefaultCacher \in {"nil", "memory"}
    /\ entities = <<>>
    /\ statements = [c \in Commands |-> <<>>]
    /\ store = [k \in CacheKeys |-> NoData]
    /\ op = "Load"
    /\ pc = "idle"
    /\ ent = [val |-> 0]
    /\ opt = NoOption
    /\ calls = <<>>
    /\ lastID = 0
    /\ ret = NoRet
    /\ nops = 0
    /\ args = NoArgs
    /\ frame = NoFrame

\* the call goes on to the step its operation says, or returns
Finish(at, r) ==
    LET k == Flow(op, at, r)
    IN /\ pc' = k.pc
       /\ ret' = IF k.pc = "done" THEN [err |-> k.err, lastID |-> k.id] ELSE ret

\* the step `at` made the calls cs, left the entity as e and the caches as
\* ents, stmts and st, and gave r
Step(at, r, cs, e, ents, stmts, st) ==
    /\ calls' = calls \o cs
    /\ ent' = e
    /\ entities' = ents
    /\ statements' = stmts
    /\ store' = st
    /\ lastID' = IF at = "doInsert" THEN r.id ELSE lastID
    /\ Finish(at, r)
    /\ UNCHANGED <<typ, driverName, DefaultCacher, op, opt, nops, args, frame>>

\* a caller starts Load, Insert, Update, Upsert or Delete on an entity
Call ==
    /\ pc \in {"idle", "done"}
    /\ nops < MaxOps
    /\ \E o \in Ops, co \in CacheOptions(typ) :
        /\ op' = o
        /\ \E v \in (IF o \in {"Load", "Delete"} THEN {0} ELSE Vals) :
            ent' = [val |-> v]
        /\ opt' = co
        /\ pc' = Flow(o, "entry", Res(NilErr)).pc
    /\ calls' = <<>>
    /\ lastID' = 0
    /\ ret' = NoRet
    /\ nops' = nops + 1
    /\ UNCHANGED <<typ, driverName, DefaultCacher, entities, statements, store,
                   args, frame>>

\* the hook of event ev calling OnEntityEvent after the event's own method
hookBoth(at, ev, fn) ==
    /\ pc = at
    /\ \E e \in HookResults :
        Step(at, Res(e),
             (IF ev \in typ.Hooks
              THEN <<Called("entity", fn, ev, "", <<>>, NilErr)>> ELSE <<>>)
             \o (IF typ.EventHook
                 THEN <<Called("entity", "OnEntityEvent", ev, "", <<>>, e)>> ELSE <<>>),
             ent, entities, statements, store)

\* entity.go:532-584: the hook of event ev, whose own interface has method fn
hook(at, ev, fn) ==
    /\ pc = at
    /\ LET target == IF ev \in typ.Hooks THEN fn
                     ELSE IF typ.EventHook THEN "OnEntityEvent"
                     ELSE ""
       IN IF target = ""
          THEN Step(at, Res(NilErr), <<>>, ent, entities, statements, store)
          ELSE \E e \in HookResults :
                Step(at, Res(e), <<Called("entity", target, ev, "", <<>>, e)>>,
                     ent, entities, statements, store)

beforeInsert == hook("beforeInsert", EventBeforeInsert, "BeforeInsert")

afterInsert == hook("afterInsert", EventAfterInsert, "AfterInsert")

beforeUpdate == hook("beforeUpdate", EventBeforeUpdate, "BeforeUpdate")

afterUpdate == hook("afterUpdate", EventAfterUpdate, "AfterUpdate")

beforeDelete == hook("beforeDelete", EventBeforeDelete, "BeforeDelete")

afterDelete == hook("afterDelete", EventAfterDelete, "AfterDelete")

\* loadCache returning (false, nil) when Disable is set, as an earlier
\* cache.go did
loadCacheUnlessDisabled ==
    /\ pc = "loadCache"
    /\ LET g == getCacheOption(opt)
       IN IF g.err # NilErr
          THEN Step("loadCache", Res(Wrap("get option", g.err)), <<>>, ent,
                    entities, statements, store)
          ELSE IF g.opt.Disable
          THEN Step("loadCache", Res(NilErr), <<>>, ent, entities, statements, store)
          ELSE \E e \in CacherResults :
                LET data == IF e = NilErr THEN store[g.opt.Key] ELSE NoData
                    get == [Called("cacher", "Get", 0, g.opt.Key, <<>>, e)
                                EXCEPT !.data = data]
                    d == decodeCache(g.opt, data)
                IN IF e # NilErr
                   THEN Step("loadCache", Res(e), <<get>>, ent, entities,
                             statements, store)
                   ELSE Step("loadCache",
                             [err |-> d.err, loaded |-> d.loaded, id |-> 0],
                             <<get>>,
                             IF d.loaded THEN [ent EXCEPT !.val = d.val] ELSE ent,
                             entities, statements, store)

\* cache.go:43-83
loadCache ==
    /\ pc = "loadCache"
    /\ LET g == getCacheOption(opt)
       IN IF g.err # NilErr
          THEN Step("loadCache", Res(Wrap("get option", g.err)), <<>>, ent,
                    entities, statements, store)
          ELSE \E e \in CacherResults :
                LET data == IF e = NilErr THEN store[g.opt.Key] ELSE NoData
                    get == [Called("cacher", "Get", 0, g.opt.Key, <<>>, e)
                                EXCEPT !.data = data]
                    d == decodeCache(g.opt, data)
                IN IF e # NilErr
                   THEN Step("loadCache", Res(e), <<get>>, ent, entities,
                             statements, store)
                   ELSE Step("loadCache",
                             [err |-> d.err, loaded |-> d.loaded, id |-> 0],
                             <<get>>,
                             IF d.loaded THEN [ent EXCEPT !.val = d.val] ELSE ent,
                             entities, statements, store)

\* SaveCache without the return on Disable
SaveCacheIgnoringDisable ==
    /\ pc = "SaveCache"
    /\ LET g == getCacheOption(opt)
       IN IF g.err # NilErr
          THEN Step("SaveCache", Res(Wrap("get option", g.err)), <<>>, ent,
                    entities, statements, store)
          ELSE \E encodes \in BOOLEAN, e \in CacherResults :
                LET json == Marshal(ent)
                    data == IF g.opt.Compress THEN Compress(json) ELSE json
                    put == [Called("cacher", "Put", 0, g.opt.Key, <<>>, e)
                                EXCEPT !.data = data]
                IN IF ~encodes
                   THEN e = NilErr
                        /\ Step("SaveCache",
                                Res(Wrap("json encode", NewErr("json: unsupported value"))),
                                <<>>, ent, entities, statements, store)
                   ELSE Step("SaveCache", Res(e), <<put>>, ent, entities, statements,
                             IF e = NilErr THEN [store EXCEPT ![g.opt.Key] = data]
                             ELSE store)

\* cache.go:85-112; json.Marshal fails on a value it does not support
SaveCache ==
    /\ pc = "SaveCache"
    /\ LET g == getCacheOption(opt)
       IN IF g.err # NilErr
          THEN Step("SaveCache", Res(Wrap("get option", g.err)), <<>>, ent,
                    entities, statements, store)
          ELSE IF g.opt.Disable
          THEN Step("SaveCache", Res(NilErr), <<>>, ent, entities, statements, store)
          ELSE \E encodes \in BOOLEAN, e \in CacherResults :
                LET json == Marshal(ent)
                    data == IF g.opt.Compress THEN Compress(json) ELSE json
                    put == [Called("cacher", "Put", 0, g.opt.Key, <<>>, e)
                                EXCEPT !.data = data]
                IN IF ~encodes
                   THEN e = NilErr
                        /\ Step("SaveCache",
                                Res(Wrap("json encode", NewErr("json: unsupported value"))),
                                <<>>, ent, entities, statements, store)
                   ELSE Step("SaveCache", Res(e), <<put>>, ent, entities, statements,
                             IF e = NilErr THEN [store EXCEPT ![g.opt.Key] = data]
                             ELSE store)

\* DeleteCache returning nil when Disable is set, as an earlier cache.go did
DeleteCacheUnlessDisabled ==
    /\ pc = "DeleteCache"
    /\ LET g == getCacheOption(opt)
       IN IF g.err # NilErr
          THEN Step("DeleteCache", Res(Wrap("get option", g.err)), <<>>, ent,
                    entities, statements, store)
          ELSE IF g.opt.Disable
          THEN Step("DeleteCache", Res(NilErr), <<>>, ent, entities, statements, store)
          ELSE \E e \in CacherResults :
                Step("DeleteCache", Res(e),
                     <<[Called("cacher", "Delete", 0, g.opt.Key, <<>>, e)
                            EXCEPT !.data = store[g.opt.Key]]>>,
                     ent, entities, statements,
                     IF e = NilErr THEN [store EXCEPT ![g.opt.Key] = NoData]
                     ELSE store)

\* cache.go:114-122
DeleteCache ==
    /\ pc = "DeleteCache"
    /\ LET g == getCacheOption(opt)
       IN IF g.err # NilErr
          THEN Step("DeleteCache", Res(Wrap("get option", g.err)), <<>>, ent,
                    entities, statements, store)
          ELSE \E e \in CacherResults :
                Step("DeleteCache", Res(e),
                     <<[Called("cacher", "Delete", 0, g.opt.Key, <<>>, e)
                            EXCEPT !.data = store[g.opt.Key]]>>,
                     ent, entities, statements,
                     IF e = NilErr THEN [store EXCEPT ![g.opt.Key] = NoData]
                     ELSE store)

\* the step failed before any statement: [err] of getMetadata wrapped
metadataFailed(at, gm) ==
    Step(at, Res(Wrap("get metadata", gm.err)), <<>>, ent, gm.entities,
         statements, store)

\* part_010:95-109, 120-134, 162-176, 201-215: the row-returning path
query(at, cmd, gm, gs) ==
    \E o \in QueryOutcomes :
        LET q == queryRow(o)
        IN Step(at, Res(q.err),
                <<[Called("db", "NamedQueryContext", 0, cmd, gs.stmt, reported(o))
                        EXCEPT !.out = o.k, !.data = rowData(o)]>>,
                Scan(ent, o, q), gm.entities, gs.statements, store)

\* the call NamedExecContext(stmt) with outcome o
execCall(cmd, stmt, o) ==
    [Called("db", "NamedExecContext", 0, cmd, stmt, reported(o))
        EXCEPT !.out = o.k, !.n = o.n]

\* part_010:179-180, 197-198, 225-226: the exec path, the sql.Result dropped
exec(at, cmd, gm, gs) ==
    \E o \in ExecOutcomes :
        Step(at, Res(reported(o)), <<execCall(cmd, gs.stmt, o)>>,
             ent, gm.entities, gs.statements, store)

\* what result.LastInsertId() returns in outcome o
idErr(o) == IF o.idok THEN NilErr ELSE NewErr("LastInsertId is not supported")

\* the exec path of doInsert asking every driver for the last insert id
insertResultAnyDialect(o, driver) ==
    IF o.k = "error" THEN [err |-> reported(o), id |-> 0, calls |-> <<>>]
    ELSE [err |-> IF o.idok THEN NilErr ELSE Wrap("get last insert id", idErr(o)),
          id |-> IF o.idok THEN o.id ELSE 0,
          calls |-> <<[Called("result", "LastInsertId", 0, "", <<>>, idErr(o))
                            EXCEPT !.n = o.id]>>]

\* part_010:137-151: [err, id, calls] of the exec path of doInsert
insertResult(o, driver) ==
    IF o.k = "error" THEN [err |-> reported(o), id |-> 0, calls |-> <<>>]
    ELSE IF driver = driverPostgres THEN [err |-> NilErr, id |-> 0, calls |-> <<>>]
    ELSE [err |-> IF o.idok THEN NilErr ELSE Wrap("get last insert id", idErr(o)),
          id |-> IF o.idok THEN o.id ELSE 0,
          calls |-> <<[Called("result", "LastInsertId", 0, "", <<>>, idErr(o))
                            EXCEPT !.n = o.id]>>]

\* part_010:88-110
doLoad ==
    /\ pc = "doLoad"
    /\ \E gm \in {getMetadata(entities, typ)} :
       \E gs \in {getStatement(statements, commandSelect, gm.md, dbDriver(driverName))} :
          IF gm.err # NilErr THEN metadataFailed("doLoad", gm)
          ELSE query("doLoad", commandSelect, gm, gs)

\* doInsert with the RETURNING branch falling through to the exec
doInsertFallingThrough ==
    /\ pc = "doInsert"
    /\ \E gm \in {getMetadata(entities, typ)} :
       \E gs \in {getStatement(statements, commandInsert, gm.md, dbDriver(driverName))} :
          IF gm.err # NilErr THEN metadataFailed("doInsert", gm)
          ELSE \E q \in QueryOutcomes, o \in ExecOutcomes :
                LET r == insertResult(o, dbDriver(driverName))
                    rows == IF gm.md.hasReturningInsert /\ q.k = "row"
                            THEN <<[Called("db", "NamedQueryContext", 0, commandInsert,
                                           gs.stmt, NilErr) EXCEPT !.out = q.k]>>
                            ELSE <<>>
                IN Step("doInsert", [err |-> r.err, loaded |-> FALSE, id |-> r.id],
                        rows \o <<execCall(commandInsert, gs.stmt, o)>> \o r.calls,
                        ent, gm.entities, gs.statements, store)

\* part_010:112-152
doInsert ==
    /\ pc = "doInsert"
    /\ \E gm \in {getMetadata(entities, typ)} :
       \E gs \in {getStatement(statements, commandInsert, gm.md, dbDriver(driverName))} :
          IF gm.err # NilErr THEN metadataFailed("doInsert", gm)
          ELSE IF gm.md.hasReturningInsert
          THEN query("doInsert", commandInsert, gm, gs)
          ELSE \E o \in ExecOutcomes :
                LET r == insertResult(o, dbDriver(driverName))
                IN Step("doInsert", [err |-> r.err, loaded |-> FALSE, id |-> r.id],
                        <<execCall(commandInsert, gs.stmt, o)>> \o r.calls,
                        ent, gm.entities, gs.statements, store)

\* part_010:154-181
doUpdate ==
    /\ pc = "doUpdate"
    /\ \E gm \in {getMetadata(entities, typ)} :
       \E gs \in {getStatement(statements, commandUpdate, gm.md, dbDriver(driverName))} :
          IF gm.err # NilErr THEN metadataFailed("doUpdate", gm)
          ELSE IF gm.md.hasReturningUpdate
          THEN query("doUpdate", commandUpdate, gm, gs)
          ELSE exec("doUpdate", commandUpdate, gm, gs)

\* the check of doUpsert asking every primary key, not any, to be autoIncrement
hasOnlyAutoIncrementKeys(md) ==
    \A i \in 1..Len(md.PrimaryKeys) : md.PrimaryKeys[i].AutoIncrement

\* part_010:189-193
hasAutoIncrementKey(md) ==
    \E i \in 1..Len(md.PrimaryKeys) : md.PrimaryKeys[i].AutoIncrement

\* doUpsert taking the row-returning path for a returningInsert column only
doUpsertOnInsertFlag ==
    /\ pc = "doUpsert"
    /\ \E gm \in {getMetadata(entities, typ)} :
       \E gs \in {getStatement(statements, commandUpsert, gm.md, dbDriver(driverName))} :
          IF gm.err # NilErr THEN metadataFailed("doUpsert", gm)
          ELSE IF hasAutoIncrementKey(gm.md)
          THEN Step("doUpsert",
                    Res(NewErr("upsert not support auto increment primary key")),
                    <<>>, ent, gm.entities, statements, store)
          ELSE IF ~gm.md.hasReturningInsert
          THEN exec("doUpsert", commandUpsert, gm, gs)
          ELSE query("doUpsert", commandUpsert, gm, gs)

\* part_010:183-216
doUpsert ==
    /\ pc = "doUpsert"
    /\ \E gm \in {getMetadata(entities, typ)} :
       \E gs \in {getStatement(statements, commandUpsert, gm.md, dbDriver(driverName))} :
          IF gm.err # NilErr THEN metadataFailed("doUpsert", gm)
          ELSE IF hasAutoIncrementKey(gm.md)
          THEN Step("doUpsert",
                    Res(NewErr("upsert not support auto increment primary key")),
                    <<>>, ent, gm.entities, statements, store)
          ELSE IF ~gm.md.hasReturningInsert /\ ~gm.md.hasReturningUpdate
          THEN exec("doUpsert", commandUpsert, gm, gs)
          ELSE query("doUpsert", commandUpsert, gm, gs)

\* doDelete reporting sql.ErrNoRows when the statement affected no row
doDeleteCheckingRows ==
    /\ pc = "doDelete"
    /\ \E gm \in {getMetadata(entities, typ)} :
       \E gs \in {getStatement(statements, commandDelete, gm.md, dbDriver(driverName))} :
          IF gm.err # NilErr THEN metadataFailed("doDelete", gm)
          ELSE \E o \in ExecOutcomes :
                Step("doDelete",
                     Res(IF o.k = "result" /\ o.n = 0 THEN ErrNoRows ELSE reported(o)),
                     <<execCall(commandDelete, gs.stmt, o)>>,
                     ent, gm.entities, gs.statements, store)

\* part_010:218-227
doDelete ==
    /\ pc = "doDelete"
    /\ \E gm \in {getMetadata(entities, typ)} :
       \E gs \in {getStatement(statements, commandDelete, gm.md, dbDriver(driverName))} :
          IF gm.err # NilErr THEN metadataFailed("doDelete", gm)
          ELSE exec("doDelete", commandDelete, gm, gs)

Next ==
    \/ Call
    \/ beforeInsert
    \/ afterInsert
    \/ beforeUpdate
    \/ afterUpdate
    \/ beforeDelete
    \/ afterDelete
    \/ loadCache
    \/ SaveCache
    \/ DeleteCache
    \/ doLoad
    \/ doInsert
    \/ doUpdate
    \/ doUpsert
    \/ doDelete

Spec == Init /\ [][Next]_vars

----------------------------------------------------------------------------
(* Properties.  They read the call in progress or just returned: op, the   *)
(* calls it made, and what it returned.                                    *)

Returned == pc = "done"

CallsTo(to) == {i \in 1..Len(calls) : calls[i].to = to}

CacherCalls(fn) == {i \in CallsTo("cacher") : calls[i].fn = fn}

BeforeEvents == {EventBeforeInsert, EventBeforeUpdate, EventBeforeDelete}

AfterEvents == {EventAfterInsert, EventAfterUpdate, EventAfterDelete}

HookCalls(events) == {i \in CallsTo("entity") : calls[i].ev \in events}

\* the statement of the call ran without error and, where it is a query, gave
\* its row
StatementSucceeded ==
    \E i \in CallsTo("db") : calls[i].err = NilErr /\ calls[i].out \in {"row", "result"}

\* the step a call belongs to returned an error
Failed(c) == c.err # NilErr \/ c.out = "norows"

\* the entity's cache option names a cacher and a key
OptionResolves ==
    opt.Key # "" /\ (opt.Cacher # "nil" \/ DefaultCacher # "nil")

\* data is what SaveCache writes under option o
Decodes(o, data) == data.enc = (IF o.Compress THEN "gzip" ELSE "json")

\* some primary-key field of type t is tagged autoIncrement
AutoIncrementKey(t) ==
    \E i \in 1..Len(t.Fields) :
        /\ Has(t.Fields[i].Options, {"primaryKey", "primary_key"})
        /\ Has(t.Fields[i].Options, {"autoIncrement", "auto_increment"})

OnHandle(c) == c.to # "result"

Sig(c) == [to |-> c.to, fn |-> IF c.to = "db" THEN "statement" ELSE c.fn, ev |-> c.ev]

ExpectedHook(ev, fn) ==
    IF ev \in typ.Hooks THEN <<[to |-> "entity", fn |-> fn, ev |-> ev]>>
    ELSE IF typ.EventHook
    THEN <<[to |-> "entity", fn |-> "OnEntityEvent", ev |-> ev]>>
    ELSE <<>>

ExpectedStatement == <<[to |-> "db", fn |-> "statement", ev |-> 0]>>

ExpectedCacheDelete ==
    IF typ.Cacheable THEN <<[to |-> "cacher", fn |-> "Delete", ev |-> 0]>>
    ELSE <<>>

Expected(o) ==
    CASE o = "Insert" ->
            ExpectedHook(EventBeforeInsert, "BeforeInsert") \o ExpectedStatement
            \o ExpectedHook(EventAfterInsert, "AfterInsert")
      [] o = "Update" ->
            ExpectedHook(EventBeforeUpdate, "BeforeUpdate") \o ExpectedStatement
            \o ExpectedCacheDelete \o ExpectedHook(EventAfterUpdate, "AfterUpdate")
      [] o = "Delete" ->
            ExpectedHook(EventBeforeDelete, "BeforeDelete") \o ExpectedStatement
            \o ExpectedCacheDelete \o ExpectedHook(EventAfterDelete, "AfterDelete")
      [] OTHER -> <<>>

\* C1: the calls one Insert, Update or Delete makes on the hooks, the DB handle
\* and the cacher are a prefix of [before-hook, one statement, cache delete
\* (Update and Delete of a Cacheable entity), after-hook], cut at the first
\* step that returns an error; after a failing before-hook the DB handle and
\* the cacher get no call, and after a failing statement there is no cache
\* delete and no after-hook.
C1_HookOrder ==
    op \in {"Insert", "Update", "Delete"} =>
        LET made == SelectSeq(calls, OnHandle)
            exp == Expected(op)
        IN /\ Len(made) <= Len(exp)
           /\ \A i \in 1..Len(made) : Sig(made[i]) = exp[i]
           /\ \A i \in 1..(Len(made) - 1) : ~Failed(made[i])
           /\ (Returned /\ ret.err = NilErr) => Len(made) = Len(exp)
           /\ (\E i \in HookCalls(BeforeEvents) : calls[i].err # NilErr)
                => CallsTo("db") = {} /\ CallsTo("cacher") = {}
           /\ (\E i \in CallsTo("db") : Failed(calls[i]))
                => CacherCalls("Delete") = {} /\ HookCalls(AfterEvents) = {}

C1_Witness ==
    /\ Returned /\ op = "Delete" /\ typ.Name = "Setting"
    /\ Len(calls) = 2
    /\ calls[1].fn = "BeforeDelete" /\ calls[1].err = NilErr
    /\ calls[2].to = "db" /\ calls[2].err # NilErr
    /\ ret.err = calls[2].err

CacheHit ==
    /\ op = "Load"
    /\ \E i \in CacherCalls("Get") :
        calls[i].err = NilErr /\ calls[i].data # NoData /\ Decodes(opt, calls[i].data)

\* C2: a Load whose cacher Get returned non-empty data that decodes returns
\* nil, with no call on the DB handle and no Put or Delete on the cacher.
C2_CacheShortCircuit ==
    CacheHit =>
        /\ Returned /\ ret.err = NilErr
        /\ CallsTo("db") = {}
        /\ CacherCalls("Put") = {} /\ CacherCalls("Delete") = {}

C2_Witness ==
    /\ CacheHit /\ Returned /\ ent.val = calls[1].data.val /\ ent.val \in Vals

Invalidating ==
    /\ op \in {"Update", "Upsert", "Delete"}
    /\ typ.Cacheable
    /\ Returned
    /\ StatementSucceeded

KeyDeleted == \E i \in CacherCalls("Delete") : calls[i].arg = opt.Key

\* C3 as stated: every Update, Upsert or Delete of a Cacheable entity whose
\* statement succeeded issues a cacher Delete for the entity's key before it
\* returns, whatever the cache option's fields are.
C3_DeleteAlways == Invalidating => KeyDeleted

\* C3, amended: it does so whenever the cache option resolves (a cacher is
\* there and the key is not empty), whatever Disable and Compress are and
\* whether or not the key holds an entry; when the option does not resolve
\* the call makes no cacher call and returns a "delete cache" error.
C3_DeleteWhenOptionResolves ==
    Invalidating =>
        IF OptionResolves THEN KeyDeleted
        ELSE /\ CallsTo("cacher") = {}
             /\ ret.err # NilErr
             /\ ret.err.ctx = <<"delete cache", "get option">>

C3_Witness ==
    /\ Invalidating /\ opt.Disable
    /\ \E i \in CacherCalls("Delete") :
        calls[i].arg = opt.Key /\ calls[i].data # NoData /\ calls[i].err = NilErr
    /\ store[opt.Key] = NoData

NoRowMatched ==
    /\ op = "Update"
    /\ Returned
    /\ \E i \in CallsTo("db") :
        /\ calls[i].err = NilErr
        /\ \/ calls[i].fn = "NamedQueryContext" /\ calls[i].out = "norows"
           \/ calls[i].fn = "NamedExecContext" /\ calls[i].out = "result" /\ calls[i].n = 0

\* C4: an Update whose primary key matches no row (no row returned on the
\* RETURNING path, zero rows affected on the plain path) returns
\* sql.ErrNoRows, for which IsNotFound is true, without a cache delete and
\* without the after-update hook.
C4_UpdateNotFound ==
    NoRowMatched =>
        /\ ErrorsIs(ret.err, ErrNoRows)
        /\ IsNotFound(ret.err)
        /\ CacherCalls("Delete") = {}
        /\ HookCalls({EventAfterUpdate}) = {}

\* C5: when a call on a collaborator returned an error, the operation returns
\* a non-nil error, and makes no further call: also when the failing call is
\* the cache delete or the after-hook that follows the statement.
C5_ErrorsPropagate ==
    \A i \in 1..Len(calls) :
        calls[i].err # NilErr => /\ i = Len(calls)
                                 /\ Returned
                                 /\ ret.err # NilErr

C5_Witness ==
    /\ Returned /\ op = "Update" /\ StatementSucceeded
    /\ \E i \in CacherCalls("Delete") : calls[i].err # NilErr
    /\ ret.err = Wrap("delete cache", calls[Len(calls)].err)

\* the uniqueness-violation text of the handle's own dialect, if it has one
OwnPattern ==
    CASE driverName \in {"postgres", "pgx"} -> {PatPostgres}
      [] driverName = "mysql" -> {PatMysql}
      [] driverName \in {"sqlite3", "sqlite"} -> {PatSqlite3}
      [] OTHER -> {}

ConflictReported ==
    \E i \in CallsTo("db") : calls[i].err # NilErr /\ calls[i].err.pats \cap OwnPattern # {}

C7_UpsertRejectsAutoIncrement ==
    AutoIncrementKey(typ) =>
        /\ DOMAIN statements[commandUpsert] = {}
        /\ op = "Upsert" =>
            /\ CallsTo("db") = {}
            /\ CacherCalls("Delete") = {}
            /\ HookCalls(AfterEvents) = {}
            /\ Returned => ret.err # NilErr

C7_Witness ==
    /\ AutoIncrementKey(typ) /\ typ.Name = "GenernalEntity"
    /\ op = "Upsert" /\ Returned
    /\ ret.err = NewErr("upsert not support auto increment primary key")
    /\ typ.Name \in DOMAIN entities
    /\ DOMAIN statements[commandUpsert] = {}

CacheMiss ==
    /\ op = "Load"
    /\ typ.Cacheable
    /\ Returned
    /\ \E i \in CacherCalls("Get") : calls[i].err = NilErr /\ calls[i].data = NoData

LoadSucceeded == \E i \in CallsTo("db") : calls[i].out = "row"

\* the one Put of the call writes the loaded entity under its key
OnePutOfEntity ==
    /\ Cardinality(CacherCalls("Put")) = 1
    /\ \A i \in CacherCalls("Put") :
        /\ calls[i].arg = opt.Key
        /\ calls[i].data.val = ent.val
        /\ Decodes(opt, calls[i].data)

EncodeFailed == ret.err # NilErr /\ ret.err.ctx = <<"save cache", "json encode">>

\* every call went to doLoad, and to the DB handle where the metadata resolves
LoadPerformed ==
    IF NewMetadata(typ).err = NilErr THEN Cardinality(CallsTo("db")) = 1
    ELSE ret.err # NilErr /\ ret.err.ctx = <<"get metadata">>

\* C8 as stated: a Load that misses the cache performs the DB load and, if
\* that succeeds, issues exactly one Put of the loaded entity under its key,
\* unless Disable is set; with Disable set, or a failed DB load, no Put.
C8_PutAfterMiss ==
    CacheMiss =>
        /\ LoadPerformed
        /\ IF LoadSucceeded /\ ~opt.Disable THEN OnePutOfEntity
           ELSE CacherCalls("Put") = {}

\* C8, amended: the Put is issued unless Disable is set or the entity does
\* not encode as JSON; in that last case Load returns a "save cache" error
\* and nothing is put.
C8_PutAfterMissIfEncodable ==
    CacheMiss =>
        /\ LoadPerformed
        /\ IF LoadSucceeded /\ ~opt.Disable /\ ~EncodeFailed THEN OnePutOfEntity
           ELSE CacherCalls("Put") = {}

C8_Witness ==
    /\ CacheMiss /\ LoadSucceeded /\ ~opt.Disable /\ opt.Compress
    /\ OnePutOfEntity
    /\ ret.err = NilErr
    /\ store[opt.Key] = Compress(Marshal(ent))

DisabledLoad == op = "Load" /\ typ.Cacheable /\ opt.Disable

\* C9 as stated (for the calls that return nil): a Load with Disable set
\* performs the DB load, whatever the cacher holds, and writes nothing.
C9_DisabledLoadsFromDB ==
    (DisabledLoad /\ Returned /\ ret.err = NilErr) =>
        /\ CallsTo("db") # {}
        /\ CacherCalls("Put") = {} /\ CacherCalls("Delete") = {}

\* C9, amended: Disable stops the writing only.  A Load with Disable set
\* still reads the cache: when the key holds an entry that decodes it
\* returns that entry and makes no call on the DB handle, otherwise it
\* loads from the DB; it never issues a Put or a Delete.
C9_DisabledStillReads ==
    DisabledLoad =>
        /\ CacherCalls("Put") = {} /\ CacherCalls("Delete") = {}
        /\ (Returned /\ ret.err = NilErr) =>
            IF store[opt.Key] # NoData /\ Decodes(opt, store[opt.Key])
            THEN CallsTo("db") = {} /\ ent.val = store[opt.Key].val
            ELSE Cardinality(CallsTo("db")) = 1 /\ LoadSucceeded

C9_Witness ==
    /\ DisabledLoad /\ Returned /\ ret.err = NilErr
    /\ store[opt.Key] # NoData
    /\ CallsTo("db") = {}
    /\ Len(calls) = 1 /\ calls[1].fn = "Get" /\ calls[1].data = store[opt.Key]

BeforeHooksSucceeded == \A i \in HookCalls(BeforeEvents) : calls[i].err = NilErr

\* for Load: the type is not Cacheable, or the cacher's Get gave no data
MissedIfLoad ==
    op = "Load" =>
        \/ ~typ.Cacheable
        \/ \E i \in CacherCalls("Get") : calls[i].err = NilErr /\ calls[i].data = NoData

AtMostOneStatement ==
    /\ Cardinality(CallsTo("db")) <= 1
    /\ ~ \E i, j \in CallsTo("db") :
            calls[i].fn = "NamedQueryContext" /\ calls[j].fn = "NamedExecContext"

\* C10 as stated: a call makes at most one statement-executing call on the DB
\* handle, never a query and an exec both, and exactly one when the hooks
\* succeed, the metadata resolves and, for Load, the cache misses.
C10_OneStatement ==
    /\ AtMostOneStatement
    /\ (Returned /\ BeforeHooksSucceeded /\ NewMetadata(typ).err = NilErr /\ MissedIfLoad)
        => Cardinality(CallsTo("db")) = 1

\* C10, amended: exactly one under those conditions and, for Upsert, when no
\* primary-key column is autoIncrement; an Upsert on a type with such a
\* column makes none.
C10_OneStatementUnlessRejected ==
    /\ AtMostOneStatement
    /\ (Returned /\ BeforeHooksSucceeded /\ NewMetadata(typ).err = NilErr /\ MissedIfLoad)
        => Cardinality(CallsTo("db")) =
            (IF op = "Upsert" /\ AutoIncrementKey(typ) THEN 0 ELSE 1)

C10_Witness ==
    /\ Returned /\ op = "Insert" /\ typ.Name = "Document"
    /\ BeforeHooksSucceeded
    /\ Cardinality(CallsTo("db")) = 1
    /\ \E i \in CallsTo("db") : calls[i].fn = "NamedQueryContext" /\ calls[i].out = "row"
    /\ ret.err = NilErr

----------------------------------------------------------------------------
(* Transactions and savepoints (part_005:692-842).  A behaviour of TxSpec  *)
(* calls the helpers on a DB handle; BeginTxx, Commit, Rollback, the       *)
(* savepoint statements and the callback fn are external, what they        *)
(* answer is an input of the step.                                         *)

MaxName == 2    \* characters in a savepoint name

\* the handles a caller can pass as db, by the interfaces they satisfy for
\* the type parameter T: *sqlx.DB begins T, *sqlx.Tx is T, a transaction of
\* another type, a handle that is both, and one that is only a DB
DBKinds == {"initiator", "tx", "othertx", "both", "plain"}

\* db.(T)
IsT(db) == db \in {"tx", "both"}

\* db.(TxInitiator[T])
IsTxInitiator(db) == db \in {"initiator", "both"}

\* db.(Tx)
IsTx(db) == db \in {"tx", "othertx", "both"}

Chars == {"a", "Z", "7", "_", ";"}

NameChars == {"a", "Z", "7", "_"}

RECURSIVE SeqsUpTo(_, _)
SeqsUpTo(S, n) ==
    IF n = 0 THEN {<<>>}
    ELSE LET shorter == SeqsUpTo(S, n - 1)
         IN shorter \cup {Append(s, c) : s \in shorter, c \in S}

Names == SeqsUpTo(Chars, MaxName)

\* part_005:807, ^[0-9a-zA-Z_]+$
validSavePointName(name) ==
    /\ Len(name) >= 1
    /\ \A i \in 1..Len(name) : name[i] \in NameChars

\* what fn does: it returns err, or panics with an error value (err) or
\* with another value (err is nil, text is the value as %v prints it)
FnOutcomes ==
    {[kind |-> "return", err |-> e, text |-> ""] :
        e \in {NilErr, NewErr("fn failed"), ErrConflict}}
    \cup {[kind |-> "panic", err |-> NewErr("fn panicked"), text |-> ""],
          [kind |-> "panic", err |-> NilErr, text |-> "boom"]}

TxResults == {NilErr, NewErr("driver: bad connection")}

\* part_005:771-776, 820-825: the recovered value as an error
recovered(o) == IF o.err # NilErr THEN o.err ELSE NewErr(o.text)

\* fmt.Errorf("rollback transaction, %v, caused by %w", errRollback, err)
rollbackFailed(errRollback, err) ==
    [err EXCEPT !.ctx = <<"rollback transaction", errRollback.base, "caused by">> \o @]

\* errors.Join(err, fmt.Errorf("rollback to savepoint %s, %w", name, errRollback))
Join(a, b) == [base |-> "", ctx |-> <<>>, pats |-> a.pats \cup b.pats, errs |-> <<a, b>>]

\* fmt.Sprintf("SAVEPOINT %s", name) and its like
savepointStatement(verb, name) == <<verb, " ">> \o name

TxOps == {"TransactionX", "TryTransactionX", "SavePoint", "TrySavePoint"}

\* what the result of a helper is: its error, or the panic that went through it
TxRet(err, panicked) == [err |-> err, lastID |-> 0, panic |-> panicked]

\* the type constraints of the helpers: U TxInitiator[T], tx Tx, db DB
Accepts(o, db) ==
    CASE o = "TransactionX" -> IsTxInitiator(db)
      [] o = "SavePoint" -> IsTx(db)
      [] OTHER -> TRUE

\* TryTransaction of helper.go:110-117: a handle that begins no transaction
\* runs fn directly
TryTransactionRoute(db) ==
    IF IsTxInitiator(db) THEN "TransactionX" ELSE "fn"

\* part_005:729-738: where TryTransactionX goes for db
TryTransactionXRoute(db) ==
    IF IsT(db) THEN "fn"
    ELSE IF IsTxInitiator(db) THEN "TransactionX"
    ELSE "error"

\* the deferred function of a runTransaction that commits whatever fn returned
commitUnlessPanic(err, panicked) ==
    IF panicked THEN "Rollback" ELSE "Commit"

\* part_005:770-793: what the deferred function of runTransaction calls on tx
runTransactionDefer(err, panicked) ==
    IF panicked THEN "Rollback"
    ELSE IF err = NilErr THEN "Commit"
    ELSE "Rollback"

\* the deferred function of a SavePoint that releases after a panic
releaseAfterPanic(err, panicked) ==
    IF panicked \/ err = NilErr THEN "RELEASE SAVEPOINT" ELSE "ROLLBACK TO SAVEPOINT"

\* part_005:819-839: the statement the deferred function of SavePoint issues
SavePointDefer(err, panicked) ==
    IF err = NilErr THEN "RELEASE SAVEPOINT" ELSE "ROLLBACK TO SAVEPOINT"
TxInit ==
    /\ typ = [Name |-> ""]
    /\ driverName = "postgres"
    /\ DefaultCacher = "nil"
    /\ entities = <<>>
    /\ statements = [c \in Commands |-> <<>>]
    /\ store = [k \in CacheKeys |-> NoData]
    /\ op = ""
    /\ pc = "idle"
    /\ ent = [val |-> 0]
    /\ opt = NoOption
    /\ calls = <<>>
    /\ lastID = 0
    /\ ret = NoRet
    /\ nops = 0
    /\ args = NoArgs
    /\ frame = NoFrame

\* a caller calls one of the helpers with a handle and, for a savepoint, a name
TxCall ==
    /\ pc \in {"idle", "done"}
    /\ nops < MaxOps
    /\ \E o \in TxOps, d \in DBKinds, n \in Names :
        /\ Accepts(o, d)
        /\ o \in {"TransactionX", "TryTransactionX"} => n = <<>>
        /\ op' = o
        /\ pc' = o
        /\ args' = [db |-> d, name |-> n]
    /\ calls' = <<>>
    /\ frame' = NoFrame
    /\ ret' = NoRet
    /\ nops' = nops + 1
    /\ UNCHANGED <<typ, driverName, DefaultCacher, entities, statements, store,
                   ent, opt, lastID>>

\* the helper goes on to p having made the calls cs, with its locals as f;
\* r is what it returns if p is "done"
TxStep(p, cs, f, r) ==
    /\ pc' = p
    /\ calls' = calls \o cs
    /\ frame' = f
    /\ ret' = IF p = "done" THEN r ELSE ret
    /\ UNCHANGED <<typ, driverName, DefaultCacher, entities, statements, store,
                   op, ent, opt, lastID, nops, args>>

\* a call on the handle or on the transaction
TxCalled(to, fn, stmt, err) == Called(to, fn, 0, "", stmt, err)

\* part_005:700-702
TransactionX ==
    /\ pc = "TransactionX"
    /\ TxStep("BeginTxx", <<>>, frame, ret)

\* part_005:729-738
TryTransactionX ==
    /\ pc = "TryTransactionX"
    /\ \E to \in {TryTransactionXRoute(args.db)} :
        IF to = "error"
        THEN TxStep("done", <<>>, frame,
                    TxRet(NewErr("db is neither T nor TxInitiator[T]"), FALSE))
        ELSE TxStep(to, <<>>, frame, ret)

\* part_005:765-768
BeginTxx ==
    /\ pc = "BeginTxx"
    /\ \E e \in TxResults :
        IF e # NilErr
        THEN TxStep("done", <<TxCalled("db", "BeginTxx", <<>>, e)>>, frame,
                    TxRet(Wrap("begin transaction", e), FALSE))
        ELSE TxStep("fn", <<TxCalled("db", "BeginTxx", <<>>, e)>>,
                    [frame EXCEPT !.tx = "tx"], ret)

\* part_005:731, 795, 841 and the head of the deferred functions: fn runs
\* on the handle itself, on the transaction or inside the savepoint
fn ==
    /\ pc = "fn"
    /\ \E o \in FnOutcomes :
        \E c \in {[Called("caller", "fn", 0, IF frame.tx = "tx" THEN "tx" ELSE "db",
                          <<>>, o.err) EXCEPT !.out = o.kind]} :
        \E err \in {IF o.kind = "panic" THEN recovered(o) ELSE o.err} :
        \E f \in {[frame EXCEPT !.err = err, !.panicked = (o.kind = "panic")]} :
            CASE frame.tx = "" ->
                    TxStep("done", <<c>>, frame, TxRet(o.err, o.kind = "panic"))
              [] frame.tx = "tx" ->
                    TxStep(runTransactionDefer(err, o.kind = "panic"), <<c>>, f, ret)
              [] frame.tx = "savepoint" ->
                    TxStep(SavePointDefer(err, o.kind = "panic"), <<c>>, f, ret)

\* part_005:784-787
Commit ==
    /\ pc = "Commit"
    /\ \E e \in TxResults :
        TxStep("done", <<TxCalled("tx", "Commit", <<>>, e)>>, frame,
               TxRet(IF e # NilErr THEN Wrap("commit transaction", e) ELSE NilErr,
                     FALSE))

\* part_005:778-781, 789-791
Rollback ==
    /\ pc = "Rollback"
    /\ \E e \in TxResults :
        TxStep("done", <<TxCalled("tx", "Rollback", <<>>, e)>>, frame,
               TxRet(IF e # NilErr THEN rollbackFailed(e, frame.err) ELSE frame.err,
                     FALSE))

\* part_005:799-805
TrySavePoint ==
    /\ pc = "TrySavePoint"
    /\ IF IsTx(args.db)
       THEN TxStep("SavePoint", <<>>, frame, ret)
       ELSE TxStep("done", <<>>, frame, TxRet(NewErr("is not in transaction"), FALSE))

\* part_005:810-813
SavePoint ==
    /\ pc = "SavePoint"
    /\ IF ~validSavePointName(args.name)
       THEN TxStep("done", <<>>, frame,
                   TxRet(NewErr("invalid savepoint name"), FALSE))
       ELSE TxStep("SAVEPOINT", <<>>, frame, ret)

\* part_005:815-817
ExecSavePoint ==
    /\ pc = "SAVEPOINT"
    /\ \E e \in TxResults :
        \E c \in {TxCalled("tx", "ExecContext",
                           savepointStatement("SAVEPOINT", args.name), e)} :
            IF e # NilErr
            THEN TxStep("done", <<c>>, frame, TxRet(Wrap("create savepoint", e), FALSE))
            ELSE TxStep("fn", <<c>>, [frame EXCEPT !.tx = "savepoint"], ret)

\* part_005:828-831
ExecRelease ==
    /\ pc = "RELEASE SAVEPOINT"
    /\ \E e \in TxResults :
        TxStep("done",
               <<TxCalled("tx", "ExecContext",
                          savepointStatement("RELEASE SAVEPOINT", args.name), e)>>,
               frame,
               TxRet(IF e # NilErr THEN Wrap("release savepoint", e) ELSE NilErr,
                     FALSE))

\* part_005:832-838
ExecRollbackTo ==
    /\ pc = "ROLLBACK TO SAVEPOINT"
    /\ \E e \in TxResults :
        TxStep("done",
               <<TxCalled("tx", "ExecContext",
                          savepointStatement("ROLLBACK TO SAVEPOINT", args.name), e)>>,
               frame,
               TxRet(IF e # NilErr
                     THEN Join(frame.err, Wrap("rollback to savepoint", e))
                     ELSE frame.err,
                     FALSE))

TxNext ==
    \/ TxCall
    \/ TransactionX
    \/ TryTransactionX
    \/ BeginTxx
    \/ fn
    \/ Commit
    \/ Rollback
    \/ TrySavePoint
    \/ SavePoint
    \/ ExecSavePoint
    \/ ExecRelease
    \/ ExecRollbackTo

TxSpec == TxInit /\ [][TxNext]_vars

----------------------------------------------------------------------------
(* Properties of the transaction helpers *)

\* the functions called so far, in order
Trace == [i \in 1..Len(calls) |-> calls[i].fn]

\* the statements issued so far and the callback, in order
Issued == [i \in 1..Len(calls) |->
            IF calls[i].fn = "fn" THEN <<"fn">> ELSE calls[i].stmt]

IsPrefix(s, t) == Len(s) <= Len(t) /\ \A i \in 1..Len(s) : s[i] = t[i]

FnReturnedNil(c) == c.fn = "fn" /\ c.out = "return" /\ c.err = NilErr

FnFailed(c) == c.fn = "fn" /\ (c.out = "panic" \/ c.err # NilErr)

\* the calls of a transaction around fn: one BeginTxx; if it fails nothing
\* else and its error; otherwise fn once on the transaction, then Commit
\* after nil and Rollback after an error or a panic, and no panic goes out
AroundTransaction ==
    /\ \/ IsPrefix(Trace, <<"BeginTxx", "fn", "Commit">>)
       \/ IsPrefix(Trace, <<"BeginTxx", "fn", "Rollback">>)
    /\ pc = "done" =>
        /\ Len(calls) \in {1, 3}
        /\ ~ret.panic
        /\ Len(calls) = 1 <=> calls[1].err # NilErr
        /\ Len(calls) = 1 => ret.err = Wrap("begin transaction", calls[1].err)
        /\ Len(calls) = 3 =>
            /\ calls[2].arg = "tx"
            /\ calls[3].fn = "Commit" <=> FnReturnedNil(calls[2])
            /\ calls[3].fn = "Rollback" <=> FnFailed(calls[2])
            /\ FnFailed(calls[2]) => ret.err # NilErr
            /\ calls[3].fn = "Commit" =>
                ret.err = IF calls[3].err = NilErr THEN NilErr
                          ELSE Wrap("commit transaction", calls[3].err)

\* C11: TransactionX calls BeginTxx once; if that fails fn is never run;
\* otherwise fn runs once on the transaction and then exactly one of Commit
\* (iff fn returned nil without panicking) and Rollback (iff fn returned an
\* error or panicked) is called once; a panic comes back as the returned
\* error; a failed Commit gives its error and is followed by no Rollback
C11_TransactionX == op = "TransactionX" => AroundTransaction

\* fn panicked inside TransactionX: rolled back, the panic is the error
C11_Witness ==
    /\ op = "TransactionX"
    /\ pc = "done"
    /\ Trace = <<"BeginTxx", "fn", "Rollback">>
    /\ calls[2].out = "panic"
    /\ calls[3].err = NilErr
    /\ ret = TxRet(NewErr("boom"), FALSE)

SavePointCalled ==
    \/ op = "SavePoint"
    \/ op = "TrySavePoint" /\ IsTx(args.db) /\ pc # "TrySavePoint"

Create == savepointStatement("SAVEPOINT", args.name)

Release == savepointStatement("RELEASE SAVEPOINT", args.name)

RollbackTo == savepointStatement("ROLLBACK TO SAVEPOINT", args.name)

\* C12: SavePoint issues nothing and fails for a name that does not match
\* [0-9a-zA-Z_]+; otherwise it issues SAVEPOINT name; if that fails nothing
\* else happens; otherwise fn runs once and then exactly one of RELEASE
\* SAVEPOINT name (iff fn returned nil without panicking) and ROLLBACK TO
\* SAVEPOINT name (iff fn returned an error or panicked) is issued, and a
\* panic comes back as the returned error
C12_SavePoint ==
    SavePointCalled =>
        IF ~validSavePointName(args.name)
        THEN /\ calls = <<>>
             /\ pc \in {"SavePoint", "done"}
             /\ pc = "done" => ret.err = NewErr("invalid savepoint name")
        ELSE /\ \/ IsPrefix(Issued, <<Create, <<"fn">>, Release>>)
                \/ IsPrefix(Issued, <<Create, <<"fn">>, RollbackTo>>)
             /\ pc = "done" =>
                 /\ Len(calls) \in {1, 3}
                 /\ ~ret.panic
                 /\ Len(calls) = 1 <=> calls[1].err # NilErr
                 /\ Len(calls) = 1 => ret.err = Wrap("create savepoint", calls[1].err)
                 /\ Len(calls) = 3 =>
                     /\ calls[3].stmt = Release <=> FnReturnedNil(calls[2])
                     /\ calls[3].stmt = RollbackTo <=> FnFailed(calls[2])
                     /\ FnFailed(calls[2]) => ret.err # NilErr

\* fn panicked inside a savepoint with a valid name: rolled back to it
C12_Witness ==
    /\ op = "SavePoint"
    /\ pc = "done"
    /\ args.name = <<"a", "_">>
    /\ Issued = <<Create, <<"fn">>, RollbackTo>>
    /\ calls[2].out = "panic"
    /\ calls[3].err = NilErr
    /\ ret = TxRet(NewErr("fn panicked"), FALSE)

\* C12, its other case: a name with a character outside the class is
\* rejected with nothing issued
C12_WitnessRejected ==
    /\ op = "SavePoint"
    /\ pc = "done"
    /\ args.name = <<"a", ";">>
    /\ calls = <<>>
    /\ ret.err = NewErr("invalid savepoint name")

\* C13: TryTransactionX runs fn on db itself, with no BeginTxx, Commit or
\* Rollback, when db is a T; when db is not a T and is a TxInitiator[T] it
\* runs fn in a new transaction as TransactionX does; otherwise it runs
\* nothing and returns an error
C13_TryTransactionX ==
    op = "TryTransactionX" =>
        CASE IsT(args.db) ->
                /\ IsPrefix(Trace, <<"fn">>)
                /\ pc = "done" =>
                    /\ Trace = <<"fn">>
                    /\ calls[1].arg = "db"
                    /\ ret = TxRet(calls[1].err, calls[1].out = "panic")
          [] ~IsT(args.db) /\ IsTxInitiator(args.db) -> AroundTransaction
          [] OTHER ->
                /\ calls = <<>>
                /\ pc \in {"TryTransactionX", "done"}
                /\ pc = "done" => ret.err # NilErr

\* db is a transaction of another type: fn is not run
C13_Witness ==
    /\ op = "TryTransactionX"
    /\ pc = "done"
    /\ args.db = "othertx"
    /\ calls = <<>>
    /\ ret.err = NewErr("db is neither T nor TxInitiator[T]")

\* C13, its first case: db is already a T and fn ran on it
C13_WitnessDirect ==
    /\ op = "TryTransactionX"
    /\ pc = "done"
    /\ args.db = "tx"
    /\ Trace = <<"fn">>
    /\ ret.err = NilErr

----------------------------------------------------------------------------
(* Repository.UpdateByQuery over Repository.ForEach (repository.go:108-146). *)
(* The query answers with a cursor over some rows; apply and Update are    *)
(* external, what they answer is an input of the step.                     *)

MaxRows == 3    \* rows in the result of the query

RowResults == {NilErr, NewErr("driver: bad connection")}

\* what apply answers for a row
ApplyOutcomes ==
    {[ok |-> TRUE, err |-> NilErr], [ok |-> FALSE, err |-> NilErr],
     [ok |-> FALSE, err |-> NewErr("apply failed")]}

\* repository.go:138-140, the iteratee of UpdateByQuery after apply: it
\* returns (false, err) at once, or goes on to Update
applied(ok, err) ==
    IF err # NilErr \/ ~ok THEN [update |-> FALSE, ok |-> FALSE, err |-> err]
    ELSE [update |-> TRUE, ok |-> TRUE, err |-> NilErr]

\* repository.go:140-143, the iteratee of UpdateByQuery after Update
updated(err) ==
    IF err # NilErr THEN [ok |-> FALSE, err |-> err] ELSE [ok |-> TRUE, err |-> NilErr]

\* repository.go:125-129, what ForEach does with the iteratee's answer
afterIteratee(r) ==
    IF r.err # NilErr THEN "return" ELSE IF ~r.ok THEN "break" ELSE "Next"

RepoInit ==
    /\ typ = [Name |-> ""]
    /\ driverName = "postgres"
    /\ DefaultCacher = "nil"
    /\ entities = <<>>
    /\ statements = [c \in Commands |-> <<>>]
    /\ store = [k \in CacheKeys |-> NoData]
    /\ op = ""
    /\ pc = "idle"
    /\ ent = [val |-> 0]
    /\ opt = NoOption
    /\ calls = <<>>
    /\ lastID = 0
    /\ ret = NoRet
    /\ nops = 0
    /\ args = [rows |-> 0]
    /\ frame = [cursor |-> 0]

\* the helper goes on to p having made the calls cs, with the cursor at k;
\* err is what it returns if p is "done"
RepoStep(p, cs, k, err) ==
    /\ pc' = p
    /\ calls' = calls \o cs
    /\ frame' = [cursor |-> k]
    /\ ret' = IF p = "done" THEN [err |-> err, lastID |-> 0] ELSE ret
    /\ UNCHANGED <<typ, driverName, DefaultCacher, entities, statements, store,
                   op, ent, opt, lastID, nops, args>>

\* what ForEach does with the iteratee's answer r at row k
Iterated(cs, k, r) ==
    \E to \in {afterIteratee(r)} :
        CASE to = "return" -> RepoStep("done", cs, k, r.err)
          [] to = "break" -> RepoStep("Err", cs, k, NilErr)
          [] to = "Next" -> RepoStep("Next", cs, k, NilErr)

\* a caller calls UpdateByQuery with a statement that selects some rows
UpdateByQuery ==
    /\ pc \in {"idle", "done"}
    /\ nops < MaxOps
    /\ \E n \in 0..MaxRows : args' = [rows |-> n]
    /\ op' = "UpdateByQuery"
    /\ pc' = "QueryxContext"
    /\ calls' = <<>>
    /\ frame' = [cursor |-> 0]
    /\ ret' = NoRet
    /\ nops' = nops + 1
    /\ UNCHANGED <<typ, driverName, DefaultCacher, entities, statements, store,
                   ent, opt, lastID>>

\* repository.go:115-118
QueryxContext ==
    /\ pc = "QueryxContext"
    /\ \E e \in RowResults :
        \E c \in {Called("db", "QueryxContext", 0, "", <<>>, e)} :
            IF e # NilErr THEN RepoStep("done", <<c>>, 0, e)
            ELSE RepoStep("Next", <<c>>, 0, NilErr)

\* repository.go:121-125: rows.Next() and rows.StructScan(row)
RowsNext ==
    /\ pc = "Next"
    /\ IF frame.cursor < args.rows
       THEN \E e \in RowResults :
                IF e # NilErr
                THEN RepoStep("done", <<>>, frame.cursor + 1, Wrap("scan row", e))
                ELSE RepoStep("apply", <<>>, frame.cursor + 1, NilErr)
       ELSE RepoStep("Err", <<>>, frame.cursor, NilErr)

\* repository.go:138-139: apply(row)
Apply ==
    /\ pc = "apply"
    /\ \E o \in ApplyOutcomes :
        \E c \in {[Called("caller", "apply", 0, "", <<>>, o.err)
                    EXCEPT !.n = frame.cursor,
                           !.out = IF o.ok THEN "true" ELSE "false"]} :
        \E r \in {applied(o.ok, o.err)} :
            IF r.update THEN RepoStep("Update", <<c>>, frame.cursor, NilErr)
            ELSE Iterated(<<c>>, frame.cursor, r)

\* repository.go:140-143: r.Update(ctx, row)
RepositoryUpdate ==
    /\ pc = "Update"
    /\ \E e \in RowResults :
        Iterated(<<[Called("repository", "Update", 0, "", <<>>, e)
                     EXCEPT !.n = frame.cursor]>>,
                 frame.cursor, updated(e))

\* repository.go:133: rows.Err()
RowsErr ==
    /\ pc = "Err"
    /\ \E e \in RowResults : RepoStep("done", <<>>, frame.cursor, e)

RepoNext ==
    \/ UpdateByQuery
    \/ QueryxContext
    \/ RowsNext
    \/ Apply
    \/ RepositoryUpdate
    \/ RowsErr

RepoSpec == RepoInit /\ [][RepoNext]_vars

----------------------------------------------------------------------------
(* Properties of UpdateByQuery *)

\* the rows passed to fn so far
RowsPassedTo(f) == {calls[i].n : i \in {j \in 1..Len(calls) : calls[j].fn = f}}

\* the rows for which apply answered (ok, nil)
RowsApplied(ok) ==
    {calls[i].n : i \in {j \in 1..Len(calls) :
        /\ calls[j].fn = "apply"
        /\ calls[j].err = NilErr
        /\ calls[j].out = ok}}

\* C14: when UpdateByQuery returns nil, every row of the result was passed
\* to apply, rows after one that apply declined included, and Update was
\* called for exactly the rows that apply accepted
C14_SkipOnlyThatRow ==
    (op = "UpdateByQuery" /\ pc = "done" /\ ret.err = NilErr) =>
        /\ RowsPassedTo("apply") = 1..args.rows
        /\ RowsPassedTo("Update") = RowsApplied("true")

\* C14, what the code does: the first row that apply declines ends the
\* iteration; no later row is passed to apply
C14_DeclineStops ==
    op = "UpdateByQuery" =>
        \A k \in RowsApplied("false") : \A j \in RowsPassedTo("apply") : j <= k

\* apply declined the first of two rows and UpdateByQuery returned nil
\* with the second row never passed to apply
C14_Witness ==
    /\ op = "UpdateByQuery"
    /\ pc = "done"
    /\ ret.err = NilErr
    /\ args.rows = 2
    /\ RowsApplied("false") = {1}
    /\ RowsPassedTo("apply") = {1}

----------------------------------------------------------------------------
(* Properties of the metadata *)

\* the type maps no column, or none of its columns is a primary key
Unmappable(t) ==
    \/ Len(getColumns(t)) = 0
    \/ \A i \in 1..Len(getColumns(t)) : ~getColumns(t)[i].PrimaryKey

\* C15: NewMetadata fails exactly for a type with no mapped column or no
\* primary-key column; for such a type nothing is ever stored in the
\* metadata cache, so that getMetadata fails again; no statement is ever
\* executed; and a call that got as far as doLoad, doInsert, doUpdate,
\* doUpsert or doDelete (no hook or cacher call failed before, the cache
\* option resolved) returned the metadata error
C15_UnmappableFails ==
    /\ NewMetadata(typ).err # NilErr <=> Unmappable(typ)
    /\ Unmappable(typ) =>
        /\ typ.Name \notin DOMAIN entities
        /\ getMetadata(entities, typ).err # NilErr
        /\ CallsTo("db") = {}
        /\ pc = "done" => ret.err # NilErr
        /\ (/\ pc = "done"
            /\ \A i \in 1..Len(calls) : calls[i].err = NilErr
            /\ (op = "Load" /\ typ.Cacheable) => OptionResolves)
            => ret.err = Wrap("get metadata", NewMetadata(typ).err)

\* Update of an entity whose type maps no column failed at the metadata
C15_Witness ==
    /\ typ.Name = "EmptyEntity"
    /\ op = "Update"
    /\ pc = "done"
    /\ calls = <<>>
    /\ entities = <<>>
    /\ ret.err = Wrap("get metadata", NewErr("empty entity"))

\* C15, its other case: Load of an entity whose type has columns and no
\* primary key failed the same way
C15_WitnessNoPrimaryKey ==
    /\ typ.Name = "NoPrimaryKeyEntity"
    /\ op = "Load"
    /\ pc = "done"
    /\ calls = <<>>
    /\ entities = <<>>
    /\ ret.err = Wrap("get metadata", NewErr("primary key not found"))

----------------------------------------------------------------------------
(* getColumns, one token at a time (entity.go:169-202).  fi.Options is a   *)
(* map: the loop meets its keys in any order.  A behaviour of ColSpec      *)
(* resolves the one field of a type whose tag holds some tokens.           *)

MaxTokens == 3  \* tokens in one tag

Tokens ==
    {"primaryKey", "primary_key", "refuseUpdate", "refuse_update", "returning",
     "returningInsert", "returning_insert", "returningUpdate", "returning_update",
     "autoIncrement", "auto_increment", "omitempty"}

\* entity.go:172-175
newColumn(fi) ==
    [StructField |-> fi.StructField, DBField |-> fi.Name,
     PrimaryKey |-> FALSE, AutoIncrement |-> FALSE, RefuseUpdate |-> FALSE,
     ReturningInsert |-> FALSE, ReturningUpdate |-> FALSE]

\* the switch with a returningUpdate that leaves the column updatable
switchKeyUpdatable(col, key) ==
    CASE key \in {"primaryKey", "primary_key"} ->
            [col EXCEPT !.PrimaryKey = TRUE, !.RefuseUpdate = TRUE]
      [] key \in {"refuseUpdate", "refuse_update"} ->
            [col EXCEPT !.RefuseUpdate = TRUE]
      [] key = "returning" ->
            [col EXCEPT !.ReturningInsert = TRUE, !.ReturningUpdate = TRUE,
                        !.RefuseUpdate = TRUE]
      [] key \in {"returningInsert", "returning_insert"} ->
            [col EXCEPT !.ReturningInsert = TRUE]
      [] key \in {"returningUpdate", "returning_update"} ->
            [col EXCEPT !.ReturningUpdate = TRUE]
      [] key \in {"autoIncrement", "auto_increment"} ->
            [col EXCEPT !.AutoIncrement = TRUE, !.RefuseUpdate = TRUE]
      [] OTHER -> col

\* entity.go:178-196
switchKey(col, key) ==
    CASE key \in {"primaryKey", "primary_key"} ->
            [col EXCEPT !.PrimaryKey = TRUE, !.RefuseUpdate = TRUE]
      [] key \in {"refuseUpdate", "refuse_update"} ->
            [col EXCEPT !.RefuseUpdate = TRUE]
      [] key = "returning" ->
            [col EXCEPT !.ReturningInsert = TRUE, !.ReturningUpdate = TRUE,
                        !.RefuseUpdate = TRUE]
      [] key \in {"returningInsert", "returning_insert"} ->
            [col EXCEPT !.ReturningInsert = TRUE]
      [] key \in {"returningUpdate", "returning_update"} ->
            [col EXCEPT !.ReturningUpdate = TRUE, !.RefuseUpdate = TRUE]
      [] key \in {"autoIncrement", "auto_increment"} ->
            [col EXCEPT !.AutoIncrement = TRUE, !.RefuseUpdate = TRUE]
      [] OTHER -> col

ColInit ==
    /\ \E o \in {s \in SUBSET Tokens : Cardinality(s) <= MaxTokens} :
        /\ typ = [Name |-> "Row", PkgPath |-> "app", TableName |-> "rows",
                  Fields |-> <<Fld("Field", "field", o)>>]
        /\ frame = [todo |-> o, col |-> newColumn(Fld("Field", "field", o))]
    /\ driverName = "postgres"
    /\ DefaultCacher = "nil"
    /\ entities = <<>>
    /\ statements = [c \in Commands |-> <<>>]
    /\ store = [k \in CacheKeys |-> NoData]
    /\ op = "getColumns"
    /\ pc = "range"
    /\ ent = [val |-> 0]
    /\ opt = NoOption
    /\ calls = <<>>
    /\ lastID = 0
    /\ ret = [err |-> NilErr, cols |-> <<>>]
    /\ nops = 0
    /\ args = NoArgs

\* entity.go:177-197: the loop meets one more key of fi.Options
rangeOptions ==
    /\ pc = "range"
    /\ \E key \in frame.todo :
        frame' = [todo |-> frame.todo \ {key}, col |-> switchKey(frame.col, key)]
    /\ UNCHANGED <<typ, driverName, DefaultCacher, entities, statements, store,
                   op, pc, ent, opt, calls, lastID, ret, nops, args>>

\* entity.go:198-201: the loop is over, the column is appended and returned
appendColumn ==
    /\ pc = "range"
    /\ frame.todo = {}
    /\ pc' = "done"
    /\ ret' = [err |-> NilErr, cols |-> <<frame.col>>]
    /\ UNCHANGED <<typ, driverName, DefaultCacher, entities, statements, store,
                   op, ent, opt, calls, lastID, nops, args, frame>>

ColNext ==
    \/ rangeOptions
    \/ appendColumn

ColSpec == ColInit /\ [][ColNext]_vars

----------------------------------------------------------------------------
(* Properties of getColumns *)

\* the tokens of the tag the loop has met
Met == typ.Fields[1].Options \ frame.todo

\* C16: whatever tokens the tag holds and in whatever order the loop meets
\* them, a column that is PrimaryKey, AutoIncrement or ReturningUpdate is
\* RefuseUpdate; once `returning` is met the column is ReturningInsert,
\* ReturningUpdate and RefuseUpdate; and the column returned is the same
\* for every order: each flag is set iff one of its tokens is in the tag
C16_FlagClosure ==
    /\ frame.col.PrimaryKey => frame.col.RefuseUpdate
    /\ frame.col.AutoIncrement => frame.col.RefuseUpdate
    /\ frame.col.ReturningUpdate => frame.col.RefuseUpdate
    /\ "returning" \in Met =>
        /\ frame.col.ReturningInsert
        /\ frame.col.ReturningUpdate
        /\ frame.col.RefuseUpdate
    /\ pc = "done" => ret.cols = getColumns(typ)

\* a tag of returningUpdate, omitempty and returning_insert resolved
C16_Witness ==
    /\ pc = "done"
    /\ typ.Fields[1].Options = {"returningUpdate", "omitempty", "returning_insert"}
    /\ ret.cols[1].ReturningUpdate
    /\ ret.cols[1].ReturningInsert
    /\ ret.cols[1].RefuseUpdate
    /\ ~ret.cols[1].PrimaryKey

----------------------------------------------------------------------------
(* getFields (entity.go:204-242) over the field tree that reflectx builds  *)
(* for a struct.  A node is a field: its db name, the struct that declares *)
(* it, its embedding depth (the length of its index path), whether it is   *)
(* an embedded struct, and its children in declaration order; a field      *)
(* tagged "-" is a nil child.  A behaviour of FieldSpec resolves one type  *)
(* Row { A; B; own fields }, A { C; own fields }, where each of Row, A, B  *)
(* and C declares some of the db names.                                    *)

MaxFields == 2  \* db names a struct can declare

FieldNames == SubSeq(<<"id", "name", "foo">>, 1, MaxFields)

Range(s) == {s[i] : i \in DOMAIN s}

NilField == [Name |-> "-", Owner |-> "", Depth |-> 0, Embedded |-> FALSE, Children |-> <<>>]

\* the fields that struct owner, at depth d - 1, declares with the db names
\* in names, in declaration order
declared(owner, d, names) ==
    LET In(n) == n \in names
        ns == SelectSeq(FieldNames, In)
    IN [i \in 1..Len(ns) |->
          [Name |-> ns[i], Owner |-> owner, Depth |-> d, Embedded |-> FALSE,
           Children |-> <<>>]]

\* the embedded struct owner at depth d, with its children
embeddedStruct(owner, d, children) ==
    [Name |-> "", Owner |-> owner, Depth |-> d, Embedded |-> TRUE, Children |-> children]

\* mapper.TypeMap(t).Tree for the type whose structs declare the names in
\* row, a, b and c
Tree(row, a, b, c) ==
    embeddedStruct("Row", 0,
        <<embeddedStruct("A", 1,
              <<embeddedStruct("C", 2, declared("C", 3, c))>> \o declared("A", 2, a)),
          NilField,
          embeddedStruct("B", 1, declared("B", 2, b))>>
        \o declared("Row", 1, row))

IsEmbedded(v) == v # NilField /\ v.Embedded

IsOwnField(v) == v # NilField /\ ~v.Embedded

RECURSIVE Flatten(_)
Flatten(ss) == IF Len(ss) = 0 THEN <<>> ELSE Head(ss) \o Flatten(Tail(ss))

\* entity.go:208-227: a node's own fields, then those of its embedded
\* structs, each resolved the same way
RECURSIVE get(_)
get(node) ==
    LET embedded == SelectSeq(node.Children, IsEmbedded)
    IN SelectSeq(node.Children, IsOwnField)
       \o Flatten([i \in 1..Len(embedded) |-> get(embedded[i])])

FieldInit ==
    /\ \E row \in SUBSET Range(FieldNames), a \in SUBSET Range(FieldNames),
          b \in SUBSET Range(FieldNames), c \in SUBSET Range(FieldNames) :
        /\ typ = [Name |-> "Row", Tree |-> Tree(row, a, b, c)]
        /\ frame = [todo |-> get(Tree(row, a, b, c)), done |-> {}, fields |-> <<>>]
    /\ driverName = "postgres"
    /\ DefaultCacher = "nil"
    /\ entities = <<>>
    /\ statements = [c \in Commands |-> <<>>]
    /\ store = [k \in CacheKeys |-> NoData]
    /\ op = "getFields"
    /\ pc = "range"
    /\ ent = [val |-> 0]
    /\ opt = NoOption
    /\ calls = <<>>
    /\ lastID = 0
    /\ ret = [err |-> NilErr, fields |-> <<>>]
    /\ nops = 0
    /\ args = NoArgs

\* entity.go:234-239: the next field of get(sm.Tree) is kept unless its
\* name is done
rangeFields ==
    /\ pc = "range"
    /\ Len(frame.todo) > 0
    /\ \E v \in {Head(frame.todo)} :
        frame' = IF v.Name \in frame.done
                 THEN [frame EXCEPT !.todo = Tail(@)]
                 ELSE [todo |-> Tail(frame.todo),
                       done |-> frame.done \cup {v.Name},
                       fields |-> Append(frame.fields, v)]
    /\ UNCHANGED <<typ, driverName, DefaultCacher, entities, statements, store,
                   op, pc, ent, opt, calls, lastID, ret, nops, args>>

\* entity.go:241
returnFields ==
    /\ pc = "range"
    /\ Len(frame.todo) = 0
    /\ pc' = "done"
    /\ ret' = [err |-> NilErr, fields |-> frame.fields]
    /\ UNCHANGED <<typ, driverName, DefaultCacher, entities, statements, store,
                   op, ent, opt, calls, lastID, nops, args, frame>>

FieldNext ==
    \/ rangeFields
    \/ returnFields

FieldSpec == FieldInit /\ [][FieldNext]_vars

----------------------------------------------------------------------------
(* Properties of getFields *)

\* every field declared anywhere in the tree under node
RECURSIVE Declarations(_)
Declarations(node) ==
    IF node = NilField THEN {}
    ELSE IF ~node.Embedded THEN {node}
    ELSE UNION {Declarations(node.Children[i]) : i \in 1..Len(node.Children)}

Kept(name) == {i \in 1..Len(ret.fields) : ret.fields[i].Name = name}

\* C17: each db name declared in the tree is resolved exactly once, and
\* the declaration kept is one of the smallest embedding depth
C17_ShallowestWins ==
    pc = "done" =>
        \A d \in Declarations(typ.Tree) :
            /\ Cardinality(Kept(d.Name)) = 1
            /\ \A i \in Kept(d.Name) : ret.fields[i].Depth <= d.Depth

\* C17, what the code does: each db name is resolved exactly once, an own
\* field of the outer struct beats every embedded one, and otherwise the
\* declaration kept is the first in the order own fields, then embedded
\* structs depth-first
C17_FirstDepthFirst ==
    pc = "done" =>
        \A d \in Declarations(typ.Tree) :
            /\ Cardinality(Kept(d.Name)) = 1
            /\ \A i \in Kept(d.Name) :
                /\ d.Depth = 1 => ret.fields[i] = d
                /\ \E k \in 1..Len(get(typ.Tree)) :
                    /\ get(typ.Tree)[k] = ret.fields[i]
                    /\ \A j \in 1..(k - 1) : get(typ.Tree)[j].Name # d.Name

\* C declares name two levels under A and B declares it one level under
\* Row: the declaration kept is C's
C17_Witness ==
    /\ pc = "done"
    /\ \E i \in 1..Len(ret.fields) :
        /\ ret.fields[i].Name = "name"
        /\ ret.fields[i].Owner = "C"
    /\ \E d \in Declarations(typ.Tree) : d.Name = "name" /\ d.Owner = "B"

----------------------------------------------------------------------------
(* The statement text of a mapped type (part_010:229-406).  A behaviour of *)
(* StmtSpec takes one type, whose columns carry any of the tags below, and *)
(* one DB handle, and prepares the statement of one command as doLoad,     *)
(* doInsert, doUpdate, doUpsert and doDelete do.                           *)

MaxCols == 3    \* mapped fields of a type

ColNames == <<"a", "b", "c", "d">>

\* the tags a field can carry
OptionSets ==
    {{}, {"primaryKey"}, {"primaryKey", "autoIncrement"}, {"refuseUpdate"},
     {"returning"}, {"returningInsert"}, {"returningUpdate"}}

\* the types of up to MaxCols fields
RowTypes ==
    UNION {{[Name |-> "Row", PkgPath |-> "app", TableName |-> "rows",
             Fields |-> [i \in 1..n |-> Fld(ColNames[i], ColNames[i], o[i])]] :
                o \in [1..n -> OptionSets]} : n \in 1..MaxCols}

StmtInit ==
    /\ typ \in RowTypes
    /\ driverName \in DriverNames
    /\ DefaultCacher = "nil"
    /\ entities = <<>>
    /\ statements = [c \in Commands |-> <<>>]
    /\ store = [k \in CacheKeys |-> NoData]
    /\ op = ""
    /\ pc = "idle"
    /\ ent = [val |-> 0]
    /\ opt = NoOption
    /\ calls = <<>>
    /\ lastID = 0
    /\ ret = NoRet
    /\ nops = 0
    /\ args = NoArgs
    /\ frame = NoFrame

\* part_010:89-94, 113-118, 155-160, 184-199, 219-224: the metadata of the
\* type, then the statement of the command for the handle's driver
prepareStatement ==
    /\ pc = "idle"
    /\ \E cmd \in Commands :
        \E gm \in {getMetadata(entities, typ)} :
            /\ op' = cmd
            /\ pc' = "done"
            /\ entities' = gm.entities
            /\ IF gm.err # NilErr
               THEN /\ ret' = [err |-> Wrap("get metadata", gm.err), lastID |-> 0]
                    /\ UNCHANGED statements
               ELSE /\ ret' = NoRet
                    /\ statements' =
                        getStatement(statements, cmd, gm.md, dbDriver(driverName)).statements
    /\ UNCHANGED <<typ, driverName, DefaultCacher, store, ent, opt, calls,
                   lastID, nops, args, frame>>

StmtNext == prepareStatement

StmtSpec == StmtInit /\ [][StmtNext]_vars

----------------------------------------------------------------------------
(* Properties of the statement text *)

\* the statement prepared for command cmd, <<>> if none was
Prepared(cmd) ==
    IF DOMAIN statements[cmd] = {} THEN <<>>
    ELSE statements[cmd][CHOOSE k \in DOMAIN statements[cmd] : TRUE]

\* the metadata of the behaviour's type
Md == entities[typ.Name]

\* the first position of lexeme x in s from position i on, 0 if there is none
RECURSIVE IndexFrom(_, _, _)
IndexFrom(s, x, i) ==
    IF i > Len(s) THEN 0
    ELSE IF s[i] = x THEN i
    ELSE IndexFrom(s, x, i + 1)

Contains(s, x) == IndexFrom(s, x, 1) > 0

\* the lexemes of s after the first `from` and before the next lexeme of
\* `upto`, or to the end
Clause(s, from, upto) ==
    LET i == IndexFrom(s, from, 1)
        ends == {j \in (i + 1)..Len(s) : s[j] \in upto}
        j == IF ends = {} THEN Len(s) + 1
             ELSE CHOOSE e \in ends : \A f \in ends : e <= f
    IN IF i = 0 THEN <<>> ELSE SubSeq(s, i + 1, j - 1)

IsWord(x) == x \notin {BQ, DQ, ",", "=", "AND"}

\* a column or table name, not a placeholder
IsName(x) == IsWord(x) /\ x \notin {":" \o ColNames[i] : i \in DOMAIN ColNames}

\* the names and placeholders of a clause, without quotes and separators
Words(s) == SelectSeq(s, IsWord)

\* every name of the clause is between two quote characters of the dialect
QuotedFor(s, driver) ==
    LET q == IF driver = driverMysql THEN BQ ELSE DQ
    IN \A i \in 1..Len(s) :
        /\ s[i] \notin {BQ, DQ} \ {q}
        /\ IsName(s[i]) =>
            /\ i > 1 /\ s[i - 1] = q
            /\ i < Len(s) /\ s[i + 1] = q

DBFields(cols) == [i \in 1..Len(cols) |-> cols[i].DBField]

Placeholders(cols) == [i \in 1..Len(cols) |-> ":" \o cols[i].DBField]

\* name = :name for each column
Assignments(cols) ==
    Flatten([i \in 1..Len(cols) |-> <<cols[i].DBField, ":" \o cols[i].DBField>>])

\* the statement with the quote character of MySQL replaced by the other
Requoted(s) == [i \in 1..Len(s) |-> IF s[i] = BQ THEN DQ ELSE s[i]]

Insertable(col) == ~col.AutoIncrement /\ ~col.ReturningInsert

IsReturningInsert(col) == col.ReturningInsert

\* C18: the INSERT statement lists exactly the columns that are neither
\* autoIncrement nor returningInsert, in Columns order, quoted for the
\* dialect, and their placeholders in the same order; it ends with
\* RETURNING and exactly the returningInsert columns iff there is one; the
\* MySQL and the Postgres text differ in the quote character only
C18_InsertText ==
    \E s \in {Prepared(commandInsert)} :
        s # <<>> =>
            /\ Words(Clause(s, "(", {")"})) = DBFields(SelectSeq(Md.Columns, Insertable))
            /\ QuotedFor(Clause(s, "(", {")"}), dbDriver(driverName))
            /\ Words(Clause(s, "VALUES", {"RETURNING"}))
                = <<"(">> \o Placeholders(SelectSeq(Md.Columns, Insertable)) \o <<")">>
            /\ Contains(s, "RETURNING") <=> SelectSeq(Md.Columns, IsReturningInsert) # <<>>
            /\ Words(Clause(s, "RETURNING", {}))
                = DBFields(SelectSeq(Md.Columns, IsReturningInsert))
            /\ QuotedFor(Clause(s, "RETURNING", {}), dbDriver(driverName))
            /\ Requoted(newInsertStatement(Md, driverMysql))
                = newInsertStatement(Md, driverPostgres)

\* the INSERT of a type with an autoIncrement key, two plain columns and
\* a returningInsert column between them, for MySQL
C18_Witness ==
    /\ driverName = "mysql"
    /\ Len(typ.Fields) = 3
    /\ typ.Fields[1].Options = {"primaryKey"}
    /\ typ.Fields[2].Options = {"returningInsert"}
    /\ typ.Fields[3].Options = {}
    /\ Prepared(commandInsert) =
        <<"INSERT INTO", BQ, "rows", BQ, "(", BQ, "a", BQ, ",", BQ, "c", BQ, ")",
          "VALUES", "(", ":a", ",", ":c", ")", "RETURNING", BQ, "b", BQ>>

Settable(col) == ~col.RefuseUpdate /\ ~col.ReturningUpdate

IsReturningUpdate(col) == col.ReturningUpdate

\* C19: the UPDATE statement sets exactly the columns that are neither
\* RefuseUpdate nor ReturningUpdate, each as quoted name = :name in Columns
\* order; its WHERE clause is the conjunction of the primary keys in
\* PrimaryKeys order; it ends with RETURNING and exactly the
\* returningUpdate columns iff there is one
C19_UpdateText ==
    \E s \in {Prepared(commandUpdate)} :
        s # <<>> =>
            /\ Words(Clause(s, "SET", {"WHERE", "RETURNING"}))
                = Assignments(SelectSeq(Md.Columns, Settable))
            /\ QuotedFor(Clause(s, "SET", {"WHERE", "RETURNING"}), dbDriver(driverName))
            /\ Contains(s, "WHERE")
            /\ Words(Clause(s, "WHERE", {"RETURNING"})) = Assignments(Md.PrimaryKeys)
            /\ QuotedFor(Clause(s, "WHERE", {"RETURNING"}), dbDriver(driverName))
            /\ Contains(s, "RETURNING") <=> SelectSeq(Md.Columns, IsReturningUpdate) # <<>>
            /\ Words(Clause(s, "RETURNING", {}))
                = DBFields(SelectSeq(Md.Columns, IsReturningUpdate))

\* the UPDATE of a type with a key, a plain column and a returning column,
\* for Postgres
C19_Witness ==
    /\ driverName = "pgx"
    /\ Len(typ.Fields) = 3
    /\ typ.Fields[1].Options = {"primaryKey"}
    /\ typ.Fields[2].Options = {}
    /\ typ.Fields[3].Options = {"returning"}
    /\ Prepared(commandUpdate) =
        <<"UPDATE", DQ, "rows", DQ, "SET", DQ, "b", DQ, "=", ":b",
          "WHERE", DQ, "a", DQ, "=", ":a", "RETURNING", DQ, "c", DQ>>

Upsertable(col) == ~col.PrimaryKey /\ ~col.RefuseUpdate /\ ~col.ReturningUpdate

IsReturning(col) == col.ReturningInsert \/ col.ReturningUpdate

\* what C20 says of the insert, update and RETURNING parts of the UPSERT
\* statement s
UpsertParts(s) ==
    /\ Words(Clause(s, "(", {")"})) = DBFields(SelectSeq(Md.Columns, Insertable))
    /\ Words(Clause(s, "VALUES", {"ON CONFLICT", "ON CONFLICT KEY UPDATE"}))
        = <<"(">> \o Placeholders(SelectSeq(Md.Columns, Insertable)) \o <<")">>
    /\ \/ Words(Clause(s, "DO UPDATE SET", {"RETURNING"}))
            = Assignments(SelectSeq(Md.Columns, Upsertable))
       \/ Words(Clause(s, "ON CONFLICT KEY UPDATE", {"RETURNING"}))
            = Assignments(SelectSeq(Md.Columns, Upsertable))
    /\ Contains(s, "RETURNING") <=> SelectSeq(Md.Columns, IsReturning) # <<>>
    /\ Words(Clause(s, "RETURNING", {})) = DBFields(SelectSeq(Md.Columns, IsReturning))

\* the conflict clause of s names the primary keys
TargetsPrimaryKeys(s) ==
    /\ Contains(s, "ON CONFLICT")
    /\ Words(Clause(s, "ON CONFLICT", {"DO UPDATE SET"}))
        = <<"(">> \o DBFields(Md.PrimaryKeys) \o <<")">>

\* C20: for every dialect the UPSERT statement inserts exactly the columns
\* that are neither autoIncrement nor returningInsert, has a conflict
\* clause that names the primary-key columns, updates exactly the columns
\* that are not primary key, not RefuseUpdate and not ReturningUpdate, and
\* ends with RETURNING and exactly the returningInsert or returningUpdate
\* columns iff there is one
C20_UpsertText ==
    \E s \in {Prepared(commandUpsert)} :
        s # <<>> => UpsertParts(s) /\ TargetsPrimaryKeys(s)

\* C20, what the code does: the parts are as said for every dialect, and
\* the conflict clause names the primary keys for every dialect but MySQL,
\* where it is ON CONFLICT KEY UPDATE with no column
C20_UpsertTextByDialect ==
    \E s \in {Prepared(commandUpsert)} :
        s # <<>> =>
            /\ UpsertParts(s)
            /\ dbDriver(driverName) # driverMysql => TargetsPrimaryKeys(s)
            /\ dbDriver(driverName) = driverMysql =>
                /\ ~Contains(s, "ON CONFLICT")
                /\ Contains(s, "ON CONFLICT KEY UPDATE")

\* the UPSERT of a type with a key and a plain column for MySQL
C20_Witness ==
    /\ driverName = "mysql"
    /\ Len(typ.Fields) = 2
    /\ typ.Fields[1].Options = {"primaryKey"}
    /\ typ.Fields[2].Options = {}
    /\ Prepared(commandUpsert) =
        <<"INSERT INTO", BQ, "rows", BQ, "(", BQ, "a", BQ, ",", BQ, "b", BQ, ")",
          "VALUES", "(", ":a", ",", ":b", ")",
          "ON CONFLICT KEY UPDATE", BQ, "b", BQ, "=", ":b">>

\* C21: the SELECT statement projects every mapped column exactly once in
\* Columns order, quoted for the dialect, from the quoted table; its WHERE
\* clause is the conjunction of quoted-pk = :pk over the primary keys in
\* PrimaryKeys order; it ends with LIMIT 1; generating it again from the
\* same metadata and dialect yields the text that was prepared
C21_SelectText ==
    \E s \in {Prepared(commandSelect)} :
        s # <<>> =>
            /\ Head(s) = "SELECT"
            /\ Words(Clause(s, "SELECT", {"FROM"})) = DBFields(Md.Columns)
            /\ QuotedFor(Clause(s, "SELECT", {"FROM"}), dbDriver(driverName))
            /\ Clause(s, "FROM", {"WHERE"})
                = quoteIdentifier(<<Md.TableName>>, dbDriver(driverName))
            /\ Words(Clause(s, "WHERE", {"LIMIT 1"})) = Assignments(Md.PrimaryKeys)
            /\ QuotedFor(Clause(s, "WHERE", {"LIMIT 1"}), dbDriver(driverName))
            /\ Len(SelectSeq(Clause(s, "WHERE", {"LIMIT 1"}), LAMBDA x : x = "AND"))
                = Len(Md.PrimaryKeys) - 1
            /\ s[Len(s)] = "LIMIT 1"
            /\ Len(SelectSeq(s, LAMBDA x : x = "LIMIT 1")) = 1
            /\ newSelectStatement(Md, dbDriver(driverName)) = s

\* the SELECT of a type with two primary keys around a plain column, for
\* MySQL
C21_Witness ==
    /\ driverName = "mysql"
    /\ Len(typ.Fields) = 3
    /\ typ.Fields[1].Options = {"primaryKey"}
    /\ typ.Fields[2].Options = {}
    /\ typ.Fields[3].Options = {"primaryKey"}
    /\ Prepared(commandSelect) =
        <<"SELECT", BQ, "a", BQ, ",", BQ, "b", BQ, ",", BQ, "c", BQ,
          "FROM", BQ, "rows", BQ, "WHERE", BQ, "a", BQ, "=", ":a", "AND",
          BQ, "c", BQ, "=", ":c", "LIMIT 1">>

----------------------------------------------------------------------------
(* The result of Insert *)

InsertSucceeded == Returned /\ op = "Insert" /\ ret.err = NilErr

\* C22: a successful Insert of an entity without a returningInsert column
\* made one exec; on a Postgres handle it returns 0 and LastInsertId was
\* never called, on any other handle it returns the id LastInsertId gave; a
\* successful Insert of an entity with a returningInsert column made one
\* query and no exec, returns 0 on every handle without calling
\* LastInsertId, and the entity holds the row the query gave
C22_InsertResult ==
    InsertSucceeded =>
        IF ~entities[typ.Name].hasReturningInsert
        THEN /\ \E i \in CallsTo("db") :
                    /\ CallsTo("db") = {i}
                    /\ calls[i].fn = "NamedExecContext" /\ calls[i].out = "result"
             /\ IF dbDriver(driverName) = driverPostgres
                THEN ret.lastID = 0 /\ CallsTo("result") = {}
                ELSE \E j \in CallsTo("result") :
                        /\ CallsTo("result") = {j}
                        /\ calls[j].fn = "LastInsertId" /\ calls[j].err = NilErr
                        /\ ret.lastID = calls[j].n
        ELSE /\ ret.lastID = 0
             /\ CallsTo("result") = {}
             /\ \E i \in CallsTo("db") :
                    /\ CallsTo("db") = {i}
                    /\ calls[i].fn = "NamedQueryContext" /\ calls[i].out = "row"
                    /\ ent.val = calls[i].data.val

\* an Insert on a MySQL handle that returned the id of the driver
C22_Witness ==
    /\ InsertSucceeded
    /\ ~entities[typ.Name].hasReturningInsert
    /\ dbDriver(driverName) = driverMysql
    /\ ret.lastID = MaxVal
    /\ \E j \in CallsTo("result") : calls[j].n = MaxVal

\* an Insert on a Postgres handle (driver pgx) that returned 0
C22_WitnessPostgres ==
    /\ InsertSucceeded
    /\ ~entities[typ.Name].hasReturningInsert
    /\ driverName = "pgx"
    /\ ret.lastID = 0

\* an Insert through RETURNING on a MySQL handle
C22_WitnessReturning ==
    /\ InsertSucceeded
    /\ entities[typ.Name].hasReturningInsert
    /\ dbDriver(driverName) = driverMysql
    /\ ent.val = MaxVal

----------------------------------------------------------------------------
(* Delete of a row that is not there *)

\* a Delete returned whose statement ran without error and affected no row
ZeroRowsDeleted ==
    /\ Returned /\ op = "Delete"
    /\ \E i \in CallsTo("db") :
        /\ calls[i].fn = "NamedExecContext" /\ calls[i].err = NilErr
        /\ calls[i].out = "result" /\ calls[i].n = 0

\* the type has a hook for the after-delete event
HasAfterDelete == EventAfterDelete \in typ.Hooks \/ typ.EventHook

HooksSucceeded == \A i \in CallsTo("entity") : calls[i].err = NilErr

CacheDeleteSucceeded ==
    typ.Cacheable => \E i \in CacherCalls("Delete") : calls[i].err = NilErr

\* C23: a Delete whose statement executed without driver error and matched
\* no row goes on as one that matched a row: for a Cacheable entity whose
\* option resolves it calls the cacher's Delete for the entity's key; when
\* the hooks and the cache delete succeed it returns nil, the key of a
\* Cacheable entity holds nothing and the after-delete hook was called last
C23_DeleteZeroRows ==
    ZeroRowsDeleted =>
        /\ ~ErrorsIs(ret.err, ErrNoRows)
        /\ typ.Cacheable /\ OptionResolves =>
            \E i \in CacherCalls("Delete") : calls[i].arg = opt.Key
        /\ HooksSucceeded /\ CacheDeleteSucceeded =>
            /\ ret.err = NilErr
            /\ typ.Cacheable => store[opt.Key] = NoData
            /\ HasAfterDelete =>
                /\ calls[Len(calls)].to = "entity"
                /\ calls[Len(calls)].ev = EventAfterDelete

\* a Delete of a Cacheable entity with an after-delete hook that matched no
\* row, removed the entry that was cached and returned nil
C23_Witness ==
    /\ ZeroRowsDeleted
    /\ typ.Cacheable /\ HasAfterDelete
    /\ ret.err = NilErr
    /\ \E i \in CacherCalls("Delete") : calls[i].data # NoData
    /\ calls[Len(calls)].ev = EventAfterDelete

----------------------------------------------------------------------------
(* Pagination (helper.go:213-279, repository.go:172-188).  NewPagination   *)
(* computes the last page in floating point.  The model keeps the shape of *)
(* the build's numbers at a smaller width: int has IntBits bits (64 in the *)
(* build) and a float has MantBits significant bits (53 for float64), so   *)
(* that, as in the build, not every int is a float.                        *)

IntBits == 6

MantBits == 3

MaxInt == 2 ^ (IntBits - 1) - 1

MinInt == -(2 ^ (IntBits - 1))

Ints == MinInt..MaxInt

\* int arithmetic wraps around
int(x) == ((x - MinInt) % 2 ^ IntBits) + MinInt

\* the conversion uint(x) of an int
uint(x) == x % 2 ^ IntBits

\* n / d rounded to the nearest integer, a tie to the even one
RoundHalfEven(n, d) ==
    LET q == n \div d
        r == n % d
    IN IF 2 * r < d THEN q
       ELSE IF 2 * r > d THEN q + 1
       ELSE IF q % 2 = 0 THEN q ELSE q + 1

\* the e with 2^e <= n / d < 2^(e + 1), for n, d > 0
Exponent(n, d) ==
    CHOOSE e \in (-2 * IntBits)..(2 * IntBits) :
        IF e >= 0 THEN 2 ^ e * d <= n /\ n < 2 ^ (e + 1) * d
        ELSE d <= n * 2 ^ (-e) /\ n * 2 ^ (-e) < 2 * d

\* the float nearest to n / d, as the fraction num / den: the quotient is
\* kept to MantBits significant bits
roundFloat(n, d) ==
    LET s == Exponent(n, d) - MantBits + 1
    IN IF s >= 0
       THEN [num |-> RoundHalfEven(n, d * 2 ^ s) * 2 ^ s, den |-> 1]
       ELSE [num |-> RoundHalfEven(n * 2 ^ (-s), d), den |-> 2 ^ (-s)]

\* the conversion float64(x) of an int x > 0
float64(x) == roundFloat(x, 1)

\* the float a / b
quo(a, b) == roundFloat(a.num * b.den, a.den * b.num)

\* math.Ceil
Ceil(f) == (f.num + f.den - 1) \div f.den

\* the conversion int(v) of a float holding the integer v: the build decides
\* what it gives (wild) when v is no int
toInt(v, wild) == IF v > MaxInt THEN wild ELSE v

NoPage ==
    [First |-> 0, Last |-> 0, Previous |-> 0, Current |-> 0, Next |-> 0,
     Size |-> 0, Items |-> 0]

\* helper.go:225-259
NewPagination(current, size, items, wild) ==
    LET c == IF current <= 0 THEN 1 ELSE current
        sz == IF size <= 0 THEN 10 ELSE size
        last == IF items > 0
                THEN toInt(Ceil(quo(float64(items), float64(sz))), wild)
                ELSE 1
        cur == IF c < 1 THEN 1 ELSE IF c > last THEN last ELSE c
    IN [First |-> 1, Last |-> last,
        Previous |-> IF cur > 1 THEN int(cur - 1) ELSE 0,
        Current |-> cur,
        Next |-> IF cur < last THEN int(cur + 1) ELSE 0,
        Size |-> sz, Items |-> IF items > 0 THEN items ELSE 0]

\* helper.go:272-274
Offset(p) == int((p.Current - 1) * p.Size)

\* a caller is about to ask for page current of items rows, size to a page;
\* frame.wild is what the build's conversion gives for a float that is no int
PageInit ==
    /\ typ = [Name |-> ""]
    /\ driverName = "postgres"
    /\ DefaultCacher = "nil"
    /\ entities = <<>>
    /\ statements = [c \in Commands |-> <<>>]
    /\ store = [k \in CacheKeys |-> NoData]
    /\ op = ""
    /\ pc = "idle"
    /\ ent = [val |-> 0]
    /\ opt = NoOption
    /\ calls = <<>>
    /\ lastID = 0
    /\ ret = [err |-> NilErr, lastID |-> 0, page |-> NoPage]
    /\ nops = 0
    /\ \E current \in Ints, size \in Ints, items \in Ints :
        args = [current |-> current, size |-> size, items |-> items]
    /\ \E wild \in {MinInt, MaxInt} : frame = [wild |-> wild, offset |-> 0]

\* repository.go:173-182
PageQuery ==
    /\ pc = "idle"
    /\ ret' = [ret EXCEPT !.page =
                NewPagination(args.current, args.size, args.items, frame.wild)]
    /\ pc' = IF args.items = 0 THEN "done" ELSE "UOffset"
    /\ UNCHANGED <<typ, driverName, DefaultCacher, entities, statements, store,
                   op, ent, opt, calls, lastID, nops, args, frame>>

\* helper.go:277-279, called at repository.go:184
UOffset ==
    /\ pc = "UOffset"
    /\ frame' = [frame EXCEPT !.offset = uint(Offset(ret.page))]
    /\ pc' = "done"
    /\ UNCHANGED <<typ, driverName, DefaultCacher, entities, statements, store,
                   op, ent, opt, calls, lastID, ret, nops, args>>

PageNext == PageQuery \/ UOffset

PageSpec == PageInit /\ [][PageNext]_vars

\* the arguments as NewPagination reads them
PageSize == IF args.size <= 0 THEN 10 ELSE args.size

PageAsked == IF args.current <= 0 THEN 1 ELSE args.current

\* max(1, ceil(items / size))
LastPage ==
    IF args.items <= 0 THEN 1 ELSE (args.items + PageSize - 1) \div PageSize

\* the page NewPagination is specified to give
PageWanted ==
    LET cur == IF PageAsked < LastPage THEN PageAsked ELSE LastPage
    IN [First |-> 1, Last |-> LastPage,
        Previous |-> IF cur > 1 THEN cur - 1 ELSE 0,
        Current |-> cur,
        Next |-> IF cur < LastPage THEN cur + 1 ELSE 0]

Paged == pc # "idle"

PageGiven ==
    [f \in {"First", "Last", "Previous", "Current", "Next"} |-> ret.page[f]]

PageIsRight ==
    /\ PageGiven = PageWanted
    /\ 1 <= ret.page.Current /\ ret.page.Current <= ret.page.Last
    /\ Offset(ret.page) >= 0
    /\ args.items > 0 => Offset(ret.page) < args.items
    /\ args.current > ret.page.Last =>
        ret.page = NewPagination(ret.page.Last, args.size, args.items, frame.wild)

\* C24: for all ints current, size and items, NewPagination gives First = 1,
\* Last = max(1, ceil(items / size)), Current = min(current, Last) with
\* 1 <= Current <= Last, Previous = Current - 1 if Current > 1 else 0 and
\* Next = Current + 1 if Current < Last else 0; Offset() is not negative
\* and is smaller than items when items > 0; a page beyond the last gives
\* what the last page gives
C24_Pagination == Paged => PageIsRight

\* C24 where the quotient is exact: items is below 2^MantBits, so that
\* items, size and every page number are floats
C24_PaginationOfExactFloats ==
    Paged /\ args.items < 2 ^ MantBits => PageIsRight

\* page 3 asked of 7 items, 3 to a page: the last page, as asking a page
\* beyond it gives
C24_Witness ==
    /\ pc = "done"
    /\ args.items = 7 /\ args.size = 3 /\ args.current = MaxInt
    /\ ret.page.Last = 3 /\ ret.page.Current = 3 /\ ret.page.Previous = 2
    /\ ret.page.Next = 0
    /\ frame.offset = 6

----------------------------------------------------------------------------
(* QueryBy (helper.go:163-188): a query whose rows are handed one by one   *)
(* to a callback.  The context can be cancelled, or pass its deadline, by  *)
(* another goroutine or a timer at any moment of the call; frame.ctx is    *)
(* what ctx.Err() gives, frame.cursor the rows fetched so far.             *)

Canceled == NewErr("context canceled")

DeadlineExceeded == NewErr("context deadline exceeded")

\* ctx.Err()
ctxErr(ctx) ==
    CASE ctx = "canceled" -> Canceled
      [] ctx = "deadline" -> DeadlineExceeded
      [] OTHER -> NilErr

\* the moment the context ended, as an entry of the trace
Cancelled(how) == Called("ctx", "cancel", 0, how, <<>>, NilErr)

\* the errors rows.Next() may end with: a driver error, or the context's
\* error once it has ended
NextErrors(ctx) == {DriverErr({})} \cup ({ctxErr(ctx)} \ {NilErr})

QueryInit ==
    /\ typ = [Name |-> ""]
    /\ driverName = "postgres"
    /\ DefaultCacher = "nil"
    /\ entities = <<>>
    /\ statements = [c \in Commands |-> <<>>]
    /\ store = [k \in CacheKeys |-> NoData]
    /\ op = "QueryBy"
    /\ pc = "QueryBy"
    /\ ent = [val |-> 0]
    /\ opt = NoOption
    /\ lastID = 0
    /\ ret = NoRet
    /\ nops = 0
    /\ \E n \in 0..MaxRows : args = [rows |-> n]
    /\ \E ctx \in {"open", "canceled", "deadline"} :
        /\ frame = [ctx |-> ctx, cursor |-> 0, err |-> NilErr]
        /\ calls = IF ctx = "open" THEN <<>> ELSE <<Cancelled(ctx)>>

QueryStep(p, cs, f, err) ==
    /\ pc' = p
    /\ calls' = calls \o cs
    /\ frame' = f
    /\ ret' = IF p = "done" THEN [err |-> err, lastID |-> 0] ELSE ret
    /\ UNCHANGED <<typ, driverName, DefaultCacher, entities, statements, store,
                   op, ent, opt, lastID, nops, args>>

\* the context is cancelled or passes its deadline while QueryBy runs
cancel ==
    /\ pc \notin {"done"}
    /\ frame.ctx = "open"
    /\ \E how \in {"canceled", "deadline"} :
        QueryStep(pc, <<Cancelled(how)>>, [frame EXCEPT !.ctx = how], NilErr)

\* helper.go:165-168
QueryBy ==
    /\ pc = "QueryBy"
    /\ \E e \in {NilErr, NewErr("goqu: no source")} :
        IF e # NilErr
        THEN QueryStep("done", <<Called("stmt", "ToSQL", 0, "", <<>>, e)>>, frame,
                       Wrap("build sql", e))
        ELSE QueryStep("QueryxContext", <<Called("stmt", "ToSQL", 0, "", <<>>, e)>>,
                       frame, NilErr)

\* helper.go:170-174
queryx ==
    /\ pc = "QueryxContext"
    /\ \E e \in {NilErr} \cup NextErrors(frame.ctx) :
        \E c \in {Called("db", "QueryxContext", 0, "", <<>>, e)} :
            IF e # NilErr THEN QueryStep("done", <<c>>, frame, Wrap("execute query", e))
            ELSE QueryStep("Next", <<c>>, frame, NilErr)

\* helper.go:176: rows.Next() gives the next row, or ends the loop: no row
\* is left, or the rows failed
rowsNext ==
    /\ pc = "Next"
    /\ \/ /\ frame.cursor < args.rows
          /\ QueryStep("select",
                       <<[Called("rows", "Next", 0, "", <<>>, NilErr)
                            EXCEPT !.out = "true", !.n = frame.cursor + 1]>>,
                       [frame EXCEPT !.cursor = @ + 1], NilErr)
       \/ \E e \in (IF frame.cursor < args.rows THEN {} ELSE {NilErr})
                    \cup NextErrors(frame.ctx) :
            QueryStep("Err",
                      <<[Called("rows", "Next", 0, "", <<>>, e) EXCEPT !.out = "false"]>>,
                      [frame EXCEPT !.err = e], NilErr)

\* the loop body going to the callback whatever the context says
selectDefault ==
    /\ pc = "select"
    /\ QueryStep("fn", <<>>, frame, NilErr)

\* helper.go:177-181
selectDone ==
    /\ pc = "select"
    /\ IF frame.ctx # "open"
       THEN QueryStep("done", <<>>, frame, ctxErr(frame.ctx))
       ELSE QueryStep("fn", <<>>, frame, NilErr)

\* helper.go:183-185
handleRow ==
    /\ pc = "fn"
    /\ \E e \in {NilErr, NewErr("fn failed")} :
        \E c \in {[Called("caller", "fn", 0, "", <<>>, e) EXCEPT !.n = frame.cursor]} :
            IF e # NilErr THEN QueryStep("done", <<c>>, frame, Wrap("handle row", e))
            ELSE QueryStep("Next", <<c>>, frame, NilErr)

\* helper.go:187
returnRowsErr ==
    /\ pc = "Err"
    /\ QueryStep("done", <<>>, frame, frame.err)

QueryNext ==
    \/ cancel
    \/ QueryBy
    \/ queryx
    \/ rowsNext
    \/ selectDone
    \/ handleRow
    \/ returnRowsErr

QuerySpec == QueryInit /\ [][QueryNext]_vars

\* the places of the trace where fn was invoked, where the context ended and
\* where rows.Next() gave a row
FnCalls == {i \in 1..Len(calls) : calls[i].fn = "fn"}

Cancels == {i \in 1..Len(calls) : calls[i].fn = "cancel"}

RowsGiven == {i \in 1..Len(calls) : calls[i].fn = "Next" /\ calls[i].out = "true"}

IsContextErr(err) == err \in {Canceled, DeadlineExceeded}

\* C25: fn is invoked for the rows in their order, once each; for a row that
\* rows.Next() gives after the context was cancelled or passed its deadline
\* fn is not invoked, nor for any row after it, and QueryBy returns the
\* context's error; the first error of fn is returned (wrapped) at once, fn
\* is not invoked again
C25_QueryBy ==
    /\ \A i \in FnCalls :
        /\ calls[i].n = Cardinality({j \in FnCalls : j <= i})
        /\ \E g \in RowsGiven : g < i /\ calls[g].n = calls[i].n
    /\ \A g \in RowsGiven : \A c \in Cancels :
        c < g =>
            /\ \A i \in FnCalls : i < g
            /\ RowsGiven \cap ((g + 1)..Len(calls)) = {}
            /\ pc = "done" => ret.err = ctxErr(calls[c].arg) /\ IsContextErr(ret.err)
    /\ \A i \in FnCalls :
        calls[i].err # NilErr =>
            /\ i = Len(calls)
            /\ pc = "done"
            /\ ret.err = Wrap("handle row", calls[i].err)

\* the context was cancelled after the first of three rows was handled:
\* the second row was fetched and not handled
C25_Witness ==
    /\ pc = "done" /\ args.rows = 3
    /\ Cardinality(FnCalls) = 1 /\ Cardinality(RowsGiven) = 2
    /\ \E c \in Cancels : \E i \in FnCalls : i < c
    /\ ret.err = Canceled

\* fn failed on the second of three rows
C25_WitnessFnFailed ==
    /\ pc = "done" /\ args.rows = 3
    /\ Cardinality(FnCalls) = 2
    /\ Cancels = {}
    /\ ret.err = Wrap("handle row", NewErr("fn failed"))

----------------------------------------------------------------------------
(* Concurrent calls on one row (entity.go:244-375, cache.go:54-122).       *)
(* MaxProcs goroutines call Load, Update or Delete on entities of one      *)
(* Cacheable type that stand for the same row: they share the table, the   *)
(* cacher and the cache key.  args.row is the row in the table (0: there   *)
(* is none), store the cacher's data, frame[p] the call of goroutine p:    *)
(* its operation, its position, its entity and what it returned; calls is  *)
(* the order in which the goroutines took their steps.  Every collaborator *)
(* answers without error; a goroutine takes the steps of its operation in  *)
(* order, the steps of different goroutines interleave.                    *)

MaxProcs == 2

Procs == 1..MaxProcs

RaceOps == {"Load", "Update", "Delete"}

RaceInit ==
    /\ typ = TypeInfo["User"]
    /\ driverName = "postgres"
    /\ DefaultCacher = "nil"
    /\ entities = <<>>
    /\ statements = [c \in Commands |-> <<>>]
    /\ store = [k \in CacheKeys |-> NoData]
    /\ op = ""
    /\ pc = ""
    /\ ent = [val |-> 0]
    /\ opt \in {o \in CacheOptions(TypeInfo["User"]) : o.Key # ""}
    /\ calls = <<>>
    /\ lastID = 0
    /\ ret = NoRet
    /\ nops = 0
    /\ \E v \in Vals : args = [row |-> v]
    /\ frame = [p \in Procs |->
                    [op |-> "", pc |-> "idle", ent |-> [val |-> 0], err |-> NilErr]]

\* goroutine p took the step `at`, which gave r and left its entity as e,
\* the table's row as row and the cacher's data as st
GoStep(p, at, r, e, row, st) ==
    /\ \E k \in {Flow(frame[p].op, at, r)} :
        frame' = [frame EXCEPT ![p].pc = k.pc, ![p].err = k.err, ![p].ent = e]
    /\ args' = [row |-> row]
    /\ store' = st
    /\ calls' = Append(calls, p)
    /\ UNCHANGED <<typ, driverName, DefaultCacher, entities, statements, op, pc,
                   ent, opt, lastID, ret, nops>>

\* a goroutine calls Load, Update or Delete
Go ==
    \E p \in Procs : \E o \in RaceOps :
        /\ frame[p].pc = "idle"
        /\ \E v \in (IF o = "Update" THEN Vals ELSE {0}) :
            frame' = [frame EXCEPT ![p].op = o,
                                   ![p].pc = Flow(o, "entry", Res(NilErr)).pc,
                                   ![p].ent = [val |-> v]]
        /\ calls' = Append(calls, p)
        /\ UNCHANGED <<typ, driverName, DefaultCacher, entities, statements,
                       store, op, pc, ent, opt, lastID, ret, nops, args>>

\* entity.go:532-584: a hook of the entity, which returns nil
GoHook ==
    \E p \in Procs :
        /\ frame[p].pc \in {"beforeUpdate", "afterUpdate", "beforeDelete", "afterDelete"}
        /\ GoStep(p, frame[p].pc, Res(NilErr), frame[p].ent, args.row, store)

\* cache.go:54-82
GoLoadCache ==
    \E p \in Procs :
        /\ frame[p].pc = "loadCache"
        /\ \E g \in {getCacheOption(opt)} :
           \E d \in {decodeCache(g.opt, store[g.opt.Key])} :
                GoStep(p, "loadCache", [err |-> d.err, loaded |-> d.loaded, id |-> 0],
                       IF d.loaded THEN [val |-> d.val] ELSE frame[p].ent,
                       args.row, store)

\* part_010:88-110: the row of the table is read into the entity
GoDoLoad ==
    \E p \in Procs :
        /\ frame[p].pc = "doLoad"
        /\ IF args.row = 0
           THEN GoStep(p, "doLoad", Res(ErrNoRows), frame[p].ent, args.row, store)
           ELSE GoStep(p, "doLoad", Res(NilErr), [val |-> args.row], args.row, store)

\* cache.go:85-112
GoSaveCache ==
    \E p \in Procs :
        /\ frame[p].pc = "SaveCache"
        /\ \E g \in {getCacheOption(opt)} :
            IF g.opt.Disable
            THEN GoStep(p, "SaveCache", Res(NilErr), frame[p].ent, args.row, store)
            ELSE \E json \in {Marshal(frame[p].ent)} :
                    GoStep(p, "SaveCache", Res(NilErr), frame[p].ent, args.row,
                           [store EXCEPT ![g.opt.Key] =
                                IF g.opt.Compress THEN Compress(json) ELSE json])

\* part_010:154-181: the row, if there is one, takes the entity's value
GoDoUpdate ==
    \E p \in Procs :
        /\ frame[p].pc = "doUpdate"
        /\ GoStep(p, "doUpdate", Res(NilErr), frame[p].ent,
                  IF args.row = 0 THEN 0 ELSE frame[p].ent.val, store)

\* part_010:218-227
GoDoDelete ==
    \E p \in Procs :
        /\ frame[p].pc = "doDelete"
        /\ GoStep(p, "doDelete", Res(NilErr), frame[p].ent, 0, store)

\* cache.go:114-122
GoDeleteCache ==
    \E p \in Procs :
        /\ frame[p].pc = "DeleteCache"
        /\ \E g \in {getCacheOption(opt)} :
            GoStep(p, "DeleteCache", Res(NilErr), frame[p].ent, args.row,
                   [store EXCEPT ![g.opt.Key] = NoData])

RaceNext ==
    \/ Go
    \/ GoHook
    \/ GoLoadCache
    \/ GoDoLoad
    \/ GoSaveCache
    \/ GoDoUpdate
    \/ GoDoDelete
    \/ GoDeleteCache

RaceSpec == RaceInit /\ [][RaceNext]_vars

AllReturned == \A p \in Procs : frame[p].pc = "done"

\* what a Load finds under the row's key
Cached == decodeCache(getCacheOption(opt).opt, store[opt.Key])

\* C26: once all calls have returned, the entry under the row's key is
\* absent or holds the row as it is in the table
C26_NoStaleEntry ==
    AllReturned =>
        \/ store[opt.Key] = NoData
        \/ args.row # 0 /\ Cached.loaded /\ Cached.val = args.row

\* no two calls overlapped: the steps of one goroutine all come before the
\* steps of the other
InSequence ==
    \E k \in 0..Len(calls) :
        /\ \A i \in 1..k : calls[i] = calls[1]
        /\ \A i \in (k + 1)..Len(calls) : calls[i] # calls[1]

\* C26 of calls that did not overlap
C26_NoStaleEntryInSequence ==
    AllReturned /\ InSequence =>
        \/ store[opt.Key] = NoData
        \/ args.row # 0 /\ Cached.loaded /\ Cached.val = args.row

\* a Load read the row, an Update replaced it and deleted the entry, and
\* the Load then cached what it had read
C26_Stale ==
    /\ AllReturned
    /\ \E p, q \in Procs :
        /\ frame[p].op = "Load" /\ frame[q].op = "Update"
        /\ frame[p].err = NilErr /\ frame[q].err = NilErr
        /\ args.row = frame[q].ent.val
        /\ Cached.loaded /\ Cached.val = frame[p].ent.val
        /\ frame[p].ent.val # args.row

----------------------------------------------------------------------------
(* Concurrent getMetadata (entity.go:153-167).  MaxProcs goroutines each   *)
(* resolve the metadata of some types, MaxOps times; entities is the       *)
(* sync.Map they share.  frame[p] is the call of goroutine p: the type, the *)
(* position in getMetadata, the metadata built, what the call returned     *)
(* (md, err), the calls made so far (n) and what the earlier calls of the  *)
(* goroutine returned for each type (seen).                                *)

MetaTypes == {"GenernalEntity", "User", "EmptyEntity"}

Unseen == [md |-> NoMetadata, err |-> NilErr, called |-> FALSE]

MetaInit ==
    /\ typ = [Name |-> ""]
    /\ driverName = "postgres"
    /\ DefaultCacher = "nil"
    /\ entities = <<>>
    /\ statements = [c \in Commands |-> <<>>]
    /\ store = [k \in CacheKeys |-> NoData]
    /\ op = "getMetadata"
    /\ pc = ""
    /\ ent = [val |-> 0]
    /\ opt = NoOption
    /\ calls = <<>>
    /\ lastID = 0
    /\ ret = NoRet
    /\ nops = 0
    /\ args = NoArgs
    /\ frame = [p \in Procs |->
                    [typ |-> "", pc |-> "idle", built |-> NoMetadata,
                     md |-> NoMetadata, err |-> NilErr, n |-> 0,
                     seen |-> [t \in MetaTypes |-> Unseen]]]

MetaStep(p, f, ents) ==
    /\ frame' = [frame EXCEPT ![p] = f]
    /\ entities' = ents
    /\ UNCHANGED <<typ, driverName, DefaultCacher, statements, store, op, pc,
                   ent, opt, calls, lastID, ret, nops, args>>

\* goroutine p returns (md, err) from getMetadata
metaReturn(p, md, err) ==
    [frame[p] EXCEPT !.pc = "done", !.md = md, !.err = err]

\* a goroutine calls getMetadata on an entity of some type; what its last
\* call returned is kept
metaCall ==
    \E p \in Procs : \E t \in MetaTypes :
        /\ frame[p].pc \in {"idle", "done"}
        /\ frame[p].n < MaxOps
        /\ MetaStep(p, [frame[p] EXCEPT
                            !.typ = t, !.pc = "Load", !.n = @ + 1,
                            !.built = NoMetadata, !.md = NoMetadata, !.err = NilErr,
                            !.seen = IF frame[p].pc = "idle" THEN @
                                     ELSE [@ EXCEPT ![frame[p].typ] =
                                            [md |-> frame[p].md, err |-> frame[p].err,
                                             called |-> TRUE]]],
                    entities)

\* entity.go:156-158
metaLoad ==
    \E p \in Procs :
        /\ frame[p].pc = "Load"
        /\ IF frame[p].typ \in DOMAIN entities
           THEN MetaStep(p, metaReturn(p, entities[frame[p].typ], NilErr), entities)
           ELSE MetaStep(p, [frame[p] EXCEPT !.pc = "NewMetadata"], entities)

\* entity.go:160-163
metaNew ==
    \E p \in Procs :
        /\ frame[p].pc = "NewMetadata"
        /\ \E r \in {NewMetadata(TypeInfo[frame[p].typ])} :
            IF r.err # NilErr
            THEN MetaStep(p, metaReturn(p, NoMetadata, r.err), entities)
            ELSE MetaStep(p, [frame[p] EXCEPT !.pc = "Store", !.built = r.md], entities)

\* a Store that puts the value under the name of the table
metaStoreByTable ==
    \E p \in Procs :
        /\ frame[p].pc = "Store"
        /\ MetaStep(p, metaReturn(p, frame[p].built, NilErr),
                    (frame[p].built.TableName :> frame[p].built) @@ entities)

\* entity.go:165-166
metaStore ==
    \E p \in Procs :
        /\ frame[p].pc = "Store"
        /\ MetaStep(p, metaReturn(p, frame[p].built, NilErr),
                    [t \in DOMAIN entities \cup {frame[p].typ} |->
                        IF t = frame[p].typ THEN frame[p].built ELSE entities[t]])

MetaNext ==
    \/ metaCall
    \/ metaLoad
    \/ metaNew
    \/ metaStore

MetaSpec == MetaInit /\ [][MetaNext]_vars

\* C27: every call that returned gave what NewMetadata gives for its own
\* type, metadata or error; every entry of the cache is the complete
\* metadata of its own type; a type for which some call has returned
\* metadata is in the cache from then on; a goroutine's later call for a
\* type returns what its earlier call returned
C27_ConcurrentGetMetadata ==
    /\ \A t \in DOMAIN entities :
        /\ t \in MetaTypes
        /\ entities[t] = NewMetadata(TypeInfo[t]).md
        /\ entities[t] # NoMetadata
    /\ \A p \in Procs :
        /\ frame[p].pc = "done" =>
            /\ frame[p].md = NewMetadata(TypeInfo[frame[p].typ]).md
            /\ frame[p].err = NewMetadata(TypeInfo[frame[p].typ]).err
            /\ frame[p].err = NilErr => frame[p].typ \in DOMAIN entities
            /\ frame[p].seen[frame[p].typ].called =>
                /\ frame[p].md = frame[p].seen[frame[p].typ].md
                /\ frame[p].err = frame[p].seen[frame[p].typ].err
        /\ \A t \in MetaTypes :
            frame[p].seen[t].called /\ frame[p].seen[t].err = NilErr =>
                t \in DOMAIN entities

\* two goroutines resolved the same type for the first time at once: both
\* missed, both built and both stored; a third call hit the cache
C27_Witness ==
    /\ \A p \in Procs : frame[p].pc = "done" /\ frame[p].typ = "GenernalEntity"
    /\ \E p \in Procs : frame[p].n = 1 /\ frame[p].built # NoMetadata
    /\ \E p \in Procs :
        /\ frame[p].n = 2 /\ frame[p].built = NoMetadata
        /\ frame[p].seen["GenernalEntity"].called
        /\ frame[p].seen["GenernalEntity"].md = frame[p].md
    /\ DOMAIN entities = {"GenernalEntity"}

\* calls for two types, one of them unmappable, at once
C27_WitnessTwoTypes ==
    /\ \A p \in Procs : frame[p].pc = "done"
    /\ \E p, q \in Procs :
        /\ frame[p].typ = "User" /\ frame[p].md.TableName = "users"
        /\ frame[q].typ = "EmptyEntity" /\ frame[q].err # NilErr
    /\ DOMAIN entities = {"User"}

----------------------------------------------------------------------------
(* The statement caches over several types (part_010:229-263).  A caller   *)
(* asks, up to MaxCalls times, for the statement of some command, mapped   *)
(* type and DB handle.  The types differ in package, in name or in both,   *)
(* and two of them in neither: Go gives the same PkgPath() and String() to *)
(* the types of one name that one package declares inside different        *)
(* functions (Func), which are distinct types all the same, each with its  *)
(* own Metadata.  typ, op and driverName are those of the last call,       *)
(* ret.stmt the text it returned, frame.generated whether it ran the       *)
(* generator, calls the calls so far.                                      *)

MaxCalls == 3

KeyType(pkg, name, func, table, fields) ==
    [PkgPath |-> pkg, Name |-> name, Func |-> func, TableName |-> table,
     Fields |-> fields]

KeyTypes ==
    {KeyType("app", "Row", "", "rows",
             <<Fld("ID", "id", {"primaryKey"}), Fld("Name", "name", {})>>),
     \* the same layout under another name
     KeyType("app", "Item", "", "rows",
             <<Fld("ID", "id", {"primaryKey"}), Fld("Name", "name", {})>>),
     \* the same name in another package
     KeyType("lib", "Row", "", "lib_rows",
             <<Fld("ID", "id", {"primaryKey"}), Fld("Version", "version", {"returning"})>>),
     \* the same name in the same package, declared inside a function
     KeyType("app", "Row", "report", "reports",
             <<Fld("ID", "id", {"primaryKey"}), Fld("Total", "total", {})>>)}

KeyDrivers == {"mysql", "postgres", "pgx"}

KeyInit ==
    /\ typ \in KeyTypes
    /\ driverName \in KeyDrivers
    /\ DefaultCacher = "nil"
    /\ entities = <<>>
    /\ statements = [c \in Commands |-> <<>>]
    /\ store = [k \in CacheKeys |-> NoData]
    /\ op = ""
    /\ pc = "idle"
    /\ ent = [val |-> 0]
    /\ opt = NoOption
    /\ calls = <<>>
    /\ lastID = 0
    /\ ret = [err |-> NilErr, lastID |-> 0, stmt |-> <<>>]
    /\ nops = 0
    /\ args = NoArgs
    /\ frame = [generated |-> FALSE]

\* part_010:229-263, called with the Metadata of type t
getStatementCall ==
    /\ nops < MaxCalls
    /\ \E cmd \in Commands, t \in KeyTypes, d \in KeyDrivers :
        \E md \in {NewMetadata(t).md} :
        \E gs \in {getStatement(statements, cmd, md, dbDriver(d))} :
            /\ op' = cmd
            /\ typ' = t
            /\ driverName' = d
            /\ statements' = gs.statements
            /\ ret' = [ret EXCEPT !.stmt = gs.stmt]
            /\ frame' = [generated |-> gs.statements # statements]
            /\ calls' = Append(calls, [cmd |-> cmd, typ |-> t, driver |-> dbDriver(d)])
    /\ nops' = nops + 1
    /\ pc' = "done"
    /\ UNCHANGED <<DefaultCacher, entities, store, ent, opt, lastID, args>>

KeyNext == getStatementCall

KeySpec == KeyInit /\ [][KeyNext]_vars

\* the call at place i of the trace was for the command, type and dialect of
\* the last call
SameTriple(i) ==
    /\ calls[i].cmd = op
    /\ calls[i].typ = typ
    /\ calls[i].driver = dbDriver(driverName)

\* the calls before the last one
Earlier == 1..(Len(calls) - 1)

StatementIsOwn ==
    /\ ret.stmt = newStatement(op, NewMetadata(typ).md, dbDriver(driverName))
    /\ frame.generated <=> ~\E i \in Earlier : SameTriple(i)

\* C28: every call returns the text that the command's generator gives for
\* the call's own type and dialect, and the generator runs iff no earlier
\* call was for the same type, command and dialect
C28_OwnStatement == pc = "done" => StatementIsOwn

\* another type of the same package and name was asked for before
Homonym ==
    \E i \in Earlier :
        /\ calls[i].typ # typ
        /\ calls[i].typ.PkgPath = typ.PkgPath
        /\ calls[i].typ.Name = typ.Name

\* C28 for types that differ in package or in name
C28_OwnStatementUnlessHomonym == pc = "done" /\ ~Homonym => StatementIsOwn

\* the SELECT of app.Row declared in a function, asked for after the SELECT
\* of the package's app.Row on the same dialect: the text of the other type
C28_WitnessHomonym ==
    /\ pc = "done" /\ op = commandSelect /\ typ.Func = "report"
    /\ Homonym
    /\ Contains(ret.stmt, "name") /\ ~Contains(ret.stmt, "total")
    /\ ~frame.generated

\* a call for a second type of the same layout, after one for the first,
\* then one for the first again on the other dialect's handle
C28_WitnessHit ==
    /\ pc = "done" /\ Len(calls) = 3
    /\ calls[1].typ.Name = "Row" /\ calls[2].typ.Name = "Item"
    /\ calls[1].typ.PkgPath = "app" /\ calls[1].typ.Func = ""
    /\ calls[1].driver = driverPostgres /\ driverName = "pgx"
    /\ SameTriple(1) /\ ~frame.generated
    /\ StatementIsOwn

----------------------------------------------------------------------------
(* Not found, or failed to fetch *)

QueriesMade == {i \in CallsTo("db") : calls[i].fn = "NamedQueryContext"}

\* C29: Load, and Update and Upsert through RETURNING, return sql.ErrNoRows
\* only when the statement executed without error and gave no row; when the
\* rows end with an error of the driver, that error is returned and it is
\* not a not-found error
C29_NotFoundOnlyWithoutRows ==
    Returned /\ op \in {"Load", "Update", "Upsert"} =>
        \A i \in QueriesMade :
            /\ ErrorsIs(ret.err, ErrNoRows) =>
                calls[i].err = NilErr /\ calls[i].out = "norows"
            /\ calls[i].out \in {"nexterr", "rowerr"} =>
                ret.err = calls[i].err /\ ~IsNotFound(ret.err)

\* a Load whose rows ended with a driver error before the first row, and
\* which returned sql.ErrNoRows
C29_FetchErrorAsNotFound ==
    /\ Returned /\ op = "Load"
    /\ \E i \in QueriesMade : calls[i].out = "nexterr" /\ calls[i].err = DriverErr({})
    /\ ret.err = ErrNoRows /\ IsNotFound(ret.err)

\* a Load whose rows gave a row and then ended with a driver error
C29_FetchErrorAfterRow ==
    /\ Returned /\ op = "Load"
    /\ \E i \in QueriesMade : calls[i].out = "rowerr"
    /\ ret.err = DriverErr({}) /\ ~IsNotFound(ret.err)

----------------------------------------------------------------------------
(* Prepared statements (entity.go:377-530) against Insert and Update.  An  *)
(* entity is inserted or updated twice against collaborators that answer   *)
(* the same both times (frame: what the before-hook, the statement, the    *)
(* cacher and the after-hook answer): first by Insert or Update, then by   *)
(* ExecContext of the statement PrepareInsert or PrepareUpdate gave.  pc,  *)
(* calls, ent, lastID and ret are those of the first call; args holds the  *)
(* second call: its position, its calls, its entity and what it returned.  *)

PrepOps == {"Insert", "Update"}

\* the mapped types
PrepTypes == {TypeInfo[n] : n \in {u \in Types : NewMetadata(TypeInfo[u]).err = NilErr}}

\* the operation of type t goes through RETURNING
Returns(o, t) ==
    IF o = "Insert" THEN NewMetadata(t).md.hasReturningInsert
    ELSE NewMetadata(t).md.hasReturningUpdate

PrepInit ==
    /\ typ \in PrepTypes
    /\ driverName \in {"mysql", "pgx"}
    /\ DefaultCacher = "memory"
    /\ entities = <<>>
    /\ statements = [c \in Commands |-> <<>>]
    /\ store = [k \in CacheKeys |-> NoData]
    /\ op \in PrepOps
    /\ pc = Flow(op, "entry", Res(NilErr)).pc
    /\ ent = [val |-> 1]
    /\ opt \in CacheOptions(typ)
    /\ calls = <<>>
    /\ lastID = 0
    /\ ret = NoRet
    /\ nops = 0
    /\ args = [pc |-> "idle", calls |-> <<>>, ent |-> [val |-> 1], err |-> NilErr,
               id |-> 0]
    /\ \E before \in HookResults, after \in HookResults, cache \in CacherResults :
       \E db \in (IF Returns(op, typ) THEN QueryOutcomes ELSE ExecOutcomes) :
            frame = [before |-> before, after |-> after, cache |-> cache, db |-> db]

\* the method a hook of event ev is called through, "" if the type has none
hookTarget(ev, method) ==
    IF ev \in typ.Hooks THEN method
    ELSE IF typ.EventHook THEN "OnEntityEvent"
    ELSE ""

\* entity.go:532-584: [err, calls] of the hook of event ev, which answers e
hooked(ev, method, e) ==
    IF hookTarget(ev, method) = "" THEN [err |-> NilErr, calls |-> <<>>]
    ELSE [err |-> e,
          calls |-> <<Called("entity", hookTarget(ev, method), ev, "", <<>>, e)>>]

\* cache.go:114-122: [err, calls] of DeleteCache with a cacher that answers e
cacheDeleted(e) ==
    LET g == getCacheOption(opt)
    IN IF g.err # NilErr THEN [err |-> Wrap("get option", g.err), calls |-> <<>>]
       ELSE [err |-> e, calls |-> <<Called("cacher", "Delete", 0, g.opt.Key, <<>>, e)>>]

\* the step `at` of Insert or Update gave r and made the calls cs
DirectStep(at, r, cs, e) ==
    /\ pc = at
    /\ calls' = calls \o cs
    /\ ent' = e
    /\ lastID' = IF at = "doInsert" THEN r.id ELSE lastID
    /\ Finish(at, r)
    /\ UNCHANGED <<typ, driverName, DefaultCacher, entities, statements, store,
                   op, opt, nops, args, frame>>

\* entity.go:276-278, 289-291, 298-300, 315-317
directHook ==
    \E at \in {"beforeInsert", "afterInsert", "beforeUpdate", "afterUpdate"} :
    \E h \in {CASE at = "beforeInsert" ->
                    hooked(EventBeforeInsert, "BeforeInsert", frame.before)
                [] at = "afterInsert" ->
                    hooked(EventAfterInsert, "AfterInsert", frame.after)
                [] at = "beforeUpdate" ->
                    hooked(EventBeforeUpdate, "BeforeUpdate", frame.before)
                [] at = "afterUpdate" ->
                    hooked(EventAfterUpdate, "AfterUpdate", frame.after)} :
        DirectStep(at, Res(h.err), h.calls, ent)

\* part_010:112-152, 154-181 with the DB answering frame.db
directStatement ==
    \E at \in {"doInsert", "doUpdate"} :
    \E cmd \in {IF at = "doInsert" THEN commandInsert ELSE commandUpdate} :
        IF Returns(op, typ)
        THEN \E q \in {queryRow(frame.db)} :
                DirectStep(at, Res(q.err),
                           <<[Called("db", "NamedQueryContext", 0, cmd, <<>>,
                                     reported(frame.db)) EXCEPT !.out = frame.db.k]>>,
                           Scan(ent, frame.db, q))
        ELSE IF at = "doInsert"
        THEN \E r \in {insertResult(frame.db, dbDriver(driverName))} :
                DirectStep(at, [err |-> r.err, loaded |-> FALSE, id |-> r.id],
                           <<execCall(cmd, <<>>, frame.db)>> \o r.calls, ent)
        ELSE DirectStep(at, Res(reported(frame.db)),
                        <<execCall(cmd, <<>>, frame.db)>>, ent)

\* entity.go:309-313
directDeleteCache ==
    \E d \in {cacheDeleted(frame.cache)} :
        DirectStep("DeleteCache", Res(d.err), d.calls, ent)

\* entity.go:409-430: ExecContext of a PrepareInsertStatement, id being what
\* execContext returned
PrepareInsertExecContext(at, r, id) ==
    CASE at = "entry" -> Goto("beforeInsert")
      [] at = "beforeInsert" ->
            IF r.err # NilErr THEN Return(Wrap("before insert", r.err), 0)
            ELSE Goto("execContext")
      [] at = "execContext" ->
            IF r.err # NilErr
            THEN IF isConflictError(r.err, dbDriver(driverName))
                 THEN Return(ErrConflict, 0)
                 ELSE Return(r.err, 0)
            ELSE Goto("afterInsert")
      [] at = "afterInsert" ->
            IF r.err # NilErr THEN Return(Wrap("after insert", r.err), 0)
            ELSE Return(NilErr, id)

\* entity.go:486-512: ExecContext of a PrepareUpdateStatement
PrepareUpdateExecContext(at, r) ==
    CASE at = "entry" -> Goto("beforeUpdate")
      [] at = "beforeUpdate" ->
            IF r.err # NilErr THEN Return(Wrap("before update", r.err), 0)
            ELSE Goto("execContext")
      [] at = "execContext" ->
            IF r.err # NilErr
            THEN IF isConflictError(r.err, dbDriver(driverName))
                 THEN Return(ErrConflict, 0)
                 ELSE Return(r.err, 0)
            ELSE IF typ.Cacheable THEN Goto("DeleteCache")
            ELSE Goto("afterUpdate")
      [] at = "DeleteCache" ->
            IF r.err # NilErr THEN Return(Wrap("delete cache", r.err), 0)
            ELSE Goto("afterUpdate")
      [] at = "afterUpdate" ->
            IF r.err # NilErr THEN Return(Wrap("after update", r.err), 0)
            ELSE Return(NilErr, 0)

PreparedFlow(at, r, id) ==
    IF op = "Insert" THEN PrepareInsertExecContext(at, r, id)
    ELSE PrepareUpdateExecContext(at, r)

\* the step `at` of ExecContext gave r and made the calls cs
PreparedStep(at, r, cs, e) ==
    /\ pc = "done"
    /\ args.pc = at
    /\ \E id \in {IF at = "execContext" THEN r.id ELSE args.id} :
       \E k \in {PreparedFlow(at, r, id)} :
            args' = [pc |-> k.pc, calls |-> args.calls \o cs, ent |-> e,
                     err |-> k.err, id |-> IF k.pc = "done" THEN k.id ELSE id]
    /\ UNCHANGED <<typ, driverName, DefaultCacher, entities, statements, store,
                   op, pc, ent, opt, calls, lastID, ret, nops, frame>>

\* entity.go:385-402, 459-477: PrepareInsert or PrepareUpdate, then
\* ExecContext is called on the entity
Prepare ==
    /\ pc = "done"
    /\ args.pc = "idle"
    /\ args' = [args EXCEPT !.pc = PreparedFlow("entry", Res(NilErr), 0).pc]
    /\ \E gm \in {getMetadata(entities, typ)} :
        /\ entities' = gm.entities
        /\ statements' =
            getStatement(statements,
                         IF op = "Insert" THEN commandInsert ELSE commandUpdate,
                         gm.md, dbDriver(driverName)).statements
    /\ UNCHANGED <<typ, driverName, DefaultCacher, store, op, pc, ent, opt, calls,
                   lastID, ret, nops, frame>>

\* entity.go:413-415, 426-428, 490-492, 507-509
preparedHook ==
    \E at \in {"beforeInsert", "afterInsert", "beforeUpdate", "afterUpdate"} :
    \E h \in {CASE at = "beforeInsert" ->
                    hooked(EventBeforeInsert, "BeforeInsert", frame.before)
                [] at = "afterInsert" ->
                    hooked(EventAfterInsert, "AfterInsert", frame.after)
                [] at = "beforeUpdate" ->
                    hooked(EventBeforeUpdate, "BeforeUpdate", frame.before)
                [] at = "afterUpdate" ->
                    hooked(EventAfterUpdate, "AfterUpdate", frame.after)} :
        PreparedStep(at, Res(h.err), h.calls, args.ent)

\* QueryRowxContext(ctx, ent).StructScan(ent): the error of the query, of
\* the rows or of the scan as it is, sql.ErrNoRows when the rows ended
\* without a row and without an error: [err, scanned]
rowScan(o) ==
    CASE o.k \in {"error", "nexterr", "scanerr"} -> [err |-> reported(o), scanned |-> FALSE]
      [] o.k = "norows" -> [err |-> ErrNoRows, scanned |-> FALSE]
      [] o.k = "row" -> [err |-> NilErr, scanned |-> TRUE]
      [] o.k = "rowerr" -> [err |-> reported(o), scanned |-> TRUE]

\* entity.go:514-530: the exec path of a PrepareUpdateStatement
updateResult(o) ==
    IF o.k = "error" THEN reported(o)
    ELSE IF o.n = 0 THEN ErrNoRows
    ELSE NilErr

\* entity.go:432-451, 514-530 with the DB answering frame.db
execContext ==
    \E cmd \in {IF op = "Insert" THEN commandInsert ELSE commandUpdate} :
        IF Returns(op, typ)
        THEN \E q \in {rowScan(frame.db)} :
                PreparedStep("execContext", Res(q.err),
                             <<[Called("db", "QueryRowxContext", 0, cmd, <<>>,
                                       reported(frame.db)) EXCEPT !.out = frame.db.k]>>,
                             Scan(args.ent, frame.db, q))
        ELSE \E x \in {[execCall(cmd, <<>>, frame.db) EXCEPT !.fn = "ExecContext"]} :
                IF op = "Insert"
                THEN \E r \in {insertResult(frame.db, dbDriver(driverName))} :
                        PreparedStep("execContext",
                                     [err |-> r.err, loaded |-> FALSE, id |-> r.id],
                                     <<x>> \o r.calls, args.ent)
                ELSE PreparedStep("execContext", Res(updateResult(frame.db)),
                                  <<x>>, args.ent)

\* entity.go:501-505
preparedDeleteCache ==
    \E d \in {cacheDeleted(frame.cache)} :
        PreparedStep("DeleteCache", Res(d.err), d.calls, args.ent)

PrepNext ==
    \/ directHook
    \/ directStatement
    \/ directDeleteCache
    \/ Prepare
    \/ preparedHook
    \/ execContext
    \/ preparedDeleteCache

PrepSpec == PrepInit /\ [][PrepNext]_vars

\* the outcome of a call: nil, ErrConflict, not found or another error
Outcome(err) ==
    IF err = NilErr THEN "nil"
    ELSE IF err = ErrConflict THEN "conflict"
    ELSE IF IsNotFound(err) THEN "not found"
    ELSE "error"

\* a hook, DB or cache call by what was called: the DB by query or exec
Shape(c) ==
    [to |-> c.to, ev |-> c.ev, arg |-> c.arg,
     fn |-> IF c.fn \in {"NamedQueryContext", "QueryRowxContext"} THEN "query"
            ELSE IF c.fn \in {"NamedExecContext", "ExecContext"} THEN "exec"
            ELSE c.fn]

IsCollaborator(c) == c.to \in {"entity", "db", "cacher"}

Shapes(cs) ==
    LET kept == SelectSeq(cs, IsCollaborator)
    IN [i \in 1..Len(kept) |-> Shape(kept[i])]

BothReturned == pc = "done" /\ args.pc = "done"

\* C30: with the same entity, hooks, cacher and DB answers, ExecContext of
\* the prepared statement makes the hook, DB and cache calls of Update or
\* Insert in the same order and returns the same outcome, and for Insert
\* the same id
C30_PreparedAsDirect ==
    BothReturned =>
        /\ Shapes(args.calls) = Shapes(calls)
        /\ Outcome(args.err) = Outcome(ret.err)
        /\ args.id = ret.lastID
        /\ args.ent = ent

\* C30 where the statement's answer is one that both read alike: not an
\* exec of Update that affected no row, not rows that ended with an error
\* before the first row
C30_PreparedAsDirectOnRows ==
    /\ BothReturned
    /\ ~(op = "Update" /\ ~Returns(op, typ) /\ frame.db.k = "result" /\ frame.db.n = 0)
    /\ frame.db.k # "nexterr"
    => /\ Shapes(args.calls) = Shapes(calls)
       /\ Outcome(args.err) = Outcome(ret.err)
       /\ args.id = ret.lastID
       /\ args.ent = ent

\* an Update that affected no row: nil, with the cache delete and the after
\* hook, from Update; sql.ErrNoRows at once from the prepared statement
C30_WitnessZeroRows ==
    /\ BothReturned /\ op = "Update" /\ typ.Cacheable
    /\ frame.db.k = "result" /\ frame.db.n = 0
    /\ ret.err = NilErr /\ \E i \in 1..Len(calls) : calls[i].to = "cacher"
    /\ args.err = ErrNoRows /\ \A i \in 1..Len(args.calls) : args.calls[i].to # "cacher"

\* an Insert on MySQL that gave the same id both ways
C30_WitnessInsert ==
    /\ BothReturned /\ op = "Insert" /\ driverName = "mysql"
    /\ ret.err = NilErr /\ args.err = NilErr
    /\ ret.lastID = MaxVal /\ args.id = MaxVal

----------------------------------------------------------------------------
(* Statements without columns *)

\* the statement has a lexeme between `from` and the next lexeme of `upto`
HasClause(s, from, upto) == Words(Clause(s, from, upto)) # <<>>

\* the list of updates of the UPSERT statement s
UpdateList(s) ==
    IF Contains(s, "DO UPDATE SET") THEN Clause(s, "DO UPDATE SET", {"RETURNING"})
    ELSE Clause(s, "ON CONFLICT KEY UPDATE", {"RETURNING"})

\* C31: for every metadata that NewMetadata accepts and every dialect, the
\* UPDATE statement has at least one assignment in its SET clause, the
\* UPSERT statement has at least one assignment in its update list, and
\* the INSERT and UPSERT statements have at least one column in their
\* column list
C31_NonEmptyClauses ==
    /\ \E s \in {Prepared(commandUpdate)} :
        s # <<>> => HasClause(s, "SET", {"WHERE", "RETURNING"})
    /\ \E s \in {Prepared(commandUpsert)} :
        s # <<>> => Words(UpdateList(s)) # <<>> /\ HasClause(s, "(", {")"})
    /\ \E s \in {Prepared(commandInsert)} :
        s # <<>> => HasClause(s, "(", {")"})

\* C31, what the code gives: a clause is empty exactly when no column of
\* the type qualifies for it
C31_ClauseIffColumn ==
    /\ \E s \in {Prepared(commandUpdate)} :
        s # <<>> => (HasClause(s, "SET", {"WHERE", "RETURNING"})
                        <=> SelectSeq(Md.Columns, Settable) # <<>>)
    /\ \E s \in {Prepared(commandUpsert)} :
        s # <<>> =>
            /\ Words(UpdateList(s)) # <<>> <=> SelectSeq(Md.Columns, Upsertable) # <<>>
            /\ HasClause(s, "(", {")"}) <=> SelectSeq(Md.Columns, Insertable) # <<>>
    /\ \E s \in {Prepared(commandInsert)} :
        s # <<>> => (HasClause(s, "(", {")"})
                        <=> SelectSeq(Md.Columns, Insertable) # <<>>)

\* the UPDATE of a type whose only column is its primary key
C31_EmptySet ==
    /\ driverName = "postgres"
    /\ Len(typ.Fields) = 1
    /\ typ.Fields[1].Options = {"primaryKey"}
    /\ Prepared(commandUpdate) =
        <<"UPDATE", DQ, "rows", DQ, "SET", "WHERE", DQ, "a", DQ, "=", ":a">>

\* the INSERT of a type whose only column is an autoIncrement primary key
C31_EmptyColumnList ==
    /\ driverName = "mysql"
    /\ Len(typ.Fields) = 1
    /\ typ.Fields[1].Options = {"primaryKey", "autoIncrement"}
    /\ Prepared(commandInsert) =
        <<"INSERT INTO", BQ, "rows", BQ, "(", ")", "VALUES", "(", ")">>

----------------------------------------------------------------------------
(* How the statement of a write is executed (part_010:112-216).  A         *)
(* behaviour of ExecSpec is one Insert, Update or Upsert of an entity      *)
(* whose type has any columns of RowTypes, no hook and no cache, from the  *)
(* point where the call reaches its statement.                             *)

\* what a type without hooks and without cache adds to its columns
Plain ==
    [Hooks |-> {}, EventHook |-> FALSE, Cacheable |-> FALSE, Cacher |-> "nil",
     Key |-> ""]

ExecOps == [Insert |-> "doInsert", Update |-> "doUpdate", Upsert |-> "doUpsert"]

ExecInit ==
    /\ typ \in {t @@ Plain : t \in RowTypes}
    /\ driverName \in DriverNames
    /\ DefaultCacher = "nil"
    /\ entities = <<>>
    /\ statements = [c \in Commands |-> <<>>]
    /\ store = [k \in CacheKeys |-> NoData]
    /\ op \in DOMAIN ExecOps
    /\ pc = ExecOps[op]
    /\ ent = [val |-> 1]
    /\ opt = NoOption
    /\ calls = <<>>
    /\ lastID = 0
    /\ ret = NoRet
    /\ nops = 1
    /\ args = NoArgs
    /\ frame = NoFrame

ExecNext ==
    \/ doInsert
    \/ doUpdate
    \/ doUpsert

ExecSpec == ExecInit /\ [][ExecNext]_vars

\* the statement of the call was passed to the row-returning NamedQueryContext
Queried == \E i \in CallsTo("db") : calls[i].fn = "NamedQueryContext"

\* the statement the call executed has a RETURNING clause
ExecutedReturning == \E i \in CallsTo("db") : Contains(calls[i].stmt, "RETURNING")

\* C32: for every resolved metadata and dialect, Insert, Update and Upsert
\* execute their statement as a row-returning query iff its text has a
\* RETURNING clause: hasReturningInsert holds exactly when the INSERT has
\* one, hasReturningUpdate exactly when the UPDATE has one, and one of the
\* two exactly when the UPSERT has one
C32_QueryIffReturning ==
    typ.Name \in DOMAIN entities =>
        /\ Md.hasReturningInsert
            <=> Contains(newInsertStatement(Md, dbDriver(driverName)), "RETURNING")
        /\ Md.hasReturningUpdate
            <=> Contains(newUpdateStatement(Md, dbDriver(driverName)), "RETURNING")
        /\ (Md.hasReturningInsert \/ Md.hasReturningUpdate)
            <=> Contains(newUpsertStatement(Md, dbDriver(driverName)), "RETURNING")
        /\ Queried <=> ExecutedReturning
        /\ \A i \in CallsTo("db") :
            /\ calls[i].stmt = Prepared(calls[i].arg)
            /\ calls[i].fn \in {"NamedQueryContext", "NamedExecContext"}
            /\ calls[i].arg = CASE op = "Insert" -> commandInsert
                                [] op = "Update" -> commandUpdate
                                [] op = "Upsert" -> commandUpsert

\* an Upsert of a type with a key and a returningUpdate column queries on
\* MySQL and scans the row
C32_Witness ==
    /\ op = "Upsert" /\ driverName = "mysql"
    /\ Len(typ.Fields) = 2
    /\ typ.Fields[1].Options = {"primaryKey"}
    /\ typ.Fields[2].Options = {"returningUpdate"}
    /\ Queried /\ ExecutedReturning
    /\ ent.val = 2 /\ pc = "afterInsert"

\* an Insert of a type with a returningUpdate column only goes through
\* NamedExecContext with a statement without RETURNING
C32_WitnessExec ==
    /\ op = "Insert" /\ driverName = "pgx"
    /\ Len(typ.Fields) = 2
    /\ typ.Fields[1].Options = {"primaryKey"}
    /\ typ.Fields[2].Options = {"returningUpdate"}
    /\ CallsTo("db") # {} /\ ~Queried /\ ~ExecutedReturning

----------------------------------------------------------------------------
(* The steps of Upsert *)

\* the calls an Upsert that succeeds makes on the hooks, the DB handle and
\* the cacher
ExpectedUpsert ==
    ExpectedHook(EventBeforeInsert, "BeforeInsert")
    \o ExpectedHook(EventBeforeUpdate, "BeforeUpdate")
    \o ExpectedStatement \o ExpectedCacheDelete
    \o ExpectedHook(EventAfterInsert, "AfterInsert")
    \o ExpectedHook(EventAfterUpdate, "AfterUpdate")

HookFailed(ev) == \E i \in HookCalls({ev}) : calls[i].err # NilErr

\* C33: Upsert invokes, in this order, the before-insert hook, the
\* before-update hook, the one UPSERT statement, the cache delete (Cacheable
\* entities only), the after-insert hook and the after-update hook, and
\* stops at the first step that fails; a failing before-insert hook
\* prevents the before-update hook, and the DB handle gets no call unless
\* both before-hooks succeeded
C33_UpsertOrder ==
    op = "Upsert" =>
        LET made == SelectSeq(calls, OnHandle)
        IN /\ Len(made) <= Len(ExpectedUpsert)
           /\ \A i \in 1..Len(made) : Sig(made[i]) = ExpectedUpsert[i]
           /\ \A i \in 1..(Len(made) - 1) : ~Failed(made[i])
           /\ (Returned /\ ret.err = NilErr) => Len(made) = Len(ExpectedUpsert)
           /\ (Returned /\ ret.err # NilErr /\ made # <<>>
                    /\ ~Failed(made[Len(made)]))
                => Len(made) < Len(ExpectedUpsert)
           /\ HookFailed(EventBeforeInsert) => HookCalls({EventBeforeUpdate}) = {}
           /\ CallsTo("db") # {} =>
                /\ Len(SelectSeq(calls, LAMBDA c : c.to = "db")) = 1
                /\ \A i \in CallsTo("db") : calls[i].arg = commandUpsert
                /\ ~HookFailed(EventBeforeInsert) /\ ~HookFailed(EventBeforeUpdate)
                /\ Len(SelectSeq(calls, LAMBDA c : c.to = "entity"))
                    >= Len(ExpectedHook(EventBeforeInsert, "BeforeInsert"))
                        + Len(ExpectedHook(EventBeforeUpdate, "BeforeUpdate"))
           /\ (HookFailed(EventBeforeInsert) \/ HookFailed(EventBeforeUpdate))
                => CallsTo("db") = {} /\ CallsTo("cacher") = {}

\* an Upsert of a Cacheable entity with every hook went through all six
\* steps
C33_Witness ==
    /\ op = "Upsert" /\ Returned /\ ret.err = NilErr
    /\ typ.Name = "Setting"
    /\ [i \in 1..Len(calls) |-> calls[i].fn]
        = <<"BeforeInsert", "BeforeUpdate", "NamedExecContext", "Delete",
            "AfterInsert", "AfterUpdate">>

\* an Upsert whose before-insert hook failed made no other call
C33_WitnessBeforeInsertFailed ==
    /\ op = "Upsert" /\ Returned
    /\ typ.Name = "Setting"
    /\ Len(calls) = 1 /\ calls[1].fn = "BeforeInsert" /\ calls[1].err # NilErr
    /\ ret.err = Wrap("before upsert", calls[1].err)

----------------------------------------------------------------------------
(* The callbacks of the lifecycle events *)

\* the events of an operation, in the order of its steps
EventsOf(o) ==
    CASE o = "Insert" -> <<EventBeforeInsert, EventAfterInsert>>
      [] o = "Update" -> <<EventBeforeUpdate, EventAfterUpdate>>
      [] o = "Upsert" -> <<EventBeforeInsert, EventBeforeUpdate,
                           EventAfterInsert, EventAfterUpdate>>
      [] o = "Delete" -> <<EventBeforeDelete, EventAfterDelete>>
      [] OTHER -> <<>>

\* the method of the hook interface of an event
MethodOf(ev) ==
    CASE ev = EventBeforeInsert -> "BeforeInsert"
      [] ev = EventAfterInsert -> "AfterInsert"
      [] ev = EventBeforeUpdate -> "BeforeUpdate"
      [] ev = EventAfterUpdate -> "AfterUpdate"
      [] ev = EventBeforeDelete -> "BeforeDelete"
      [] ev = EventAfterDelete -> "AfterDelete"

\* the entity implements the hook interface of ev, or EventHook
HasCallback(ev) == ev \in typ.Hooks \/ typ.EventHook

ToEntity(c) == c.to = "entity"

\* the contexts Insert, Update, Upsert and Delete wrap around a hook's error
HookContexts ==
    {"before insert", "after insert", "before update", "after update",
     "before upsert", "after upsert", "before delete", "after delete"}

\* the call returned the error of a hook step
HookStepFailed ==
    Returned /\ ret.err.ctx # <<>> /\ Head(ret.err.ctx) \in HookContexts

\* C34: for each lifecycle event of an operation at most one callback is
\* invoked on the entity: the method of the event's own hook interface if
\* the entity implements it, and then OnEntityEvent is not called for the
\* event; OnEntityEvent, with exactly the event's constant, only when it
\* does not; an entity that implements neither gets no callback and the
\* step succeeds
C34_OneCallback ==
    LET made == SelectSeq(calls, ToEntity)
        exp == SelectSeq(EventsOf(op), HasCallback)
    IN /\ Len(made) <= Len(exp)
       /\ \A i \in 1..Len(made) :
            /\ made[i].ev = exp[i]
            /\ made[i].fn = IF exp[i] \in typ.Hooks THEN MethodOf(exp[i])
                            ELSE "OnEntityEvent"
       /\ \A ev \in AllEvents : Cardinality(HookCalls({ev})) <= 1
       /\ HookStepFailed =>
            /\ made # <<>>
            /\ made[Len(made)].err # NilErr
            /\ ret.err = Wrap(Head(ret.err.ctx), made[Len(made)].err)

\* an Insert of an entity that implements both the hook interfaces and
\* EventHook called BeforeInsert and AfterInsert and never OnEntityEvent
C34_Witness ==
    /\ op = "Insert" /\ Returned /\ ret.err = NilErr
    /\ typ.Name = "Setting" /\ typ.EventHook
    /\ [i \in 1..Len(calls) |-> calls[i].fn]
        = <<"BeforeInsert", "NamedExecContext", "LastInsertId", "AfterInsert">>

\* a Delete of an entity that implements EventHook only got OnEntityEvent
\* with the constants of its two events
C34_WitnessEventHook ==
    /\ op = "Delete" /\ Returned /\ ret.err = NilErr
    /\ typ.Name = "User"
    /\ LET made == SelectSeq(calls, ToEntity)
       IN /\ Len(made) = 2
          /\ made[1].fn = "OnEntityEvent" /\ made[1].ev = EventBeforeDelete
          /\ made[2].fn = "OnEntityEvent" /\ made[2].ev = EventAfterDelete

\* an Update of an entity without callbacks succeeded without one
C34_WitnessNoCallback ==
    /\ op = "Update" /\ Returned /\ ret.err = NilErr
    /\ typ.Name = "GenernalEntity"
    /\ CallsTo("entity") = {} /\ CallsTo("db") # {}

----------------------------------------------------------------------------
(* Driver aliases (part_010:32-35, 67-73).  A behaviour of AliasSpec makes *)
(* one call on a handle whose driver name has an alias or is one, and then *)
(* the same call, on the same entity, through a handle of the other name   *)
(* of that dialect; both share the process's metadata and statement        *)
(* caches, the cacher and the hooks.  frame keeps what the first call did. *)

\* the other name of the dialect of driver name dv
Partner(dv) ==
    IF dv \in DOMAIN driverAlias THEN driverAlias[dv]
    ELSE CHOOSE a \in DOMAIN driverAlias : driverAlias[a] = dv

Aliased == DOMAIN driverAlias \cup {driverAlias[a] : a \in DOMAIN driverAlias}

AliasInit ==
    /\ typ \in {TypeInfo[n] : n \in Types}
    /\ driverName \in Aliased
    /\ DefaultCacher \in {"nil", "memory"}
    /\ entities = <<>>
    /\ statements = [c \in Commands |-> <<>>]
    /\ store = [k \in CacheKeys |-> NoData]
    /\ op = "Load"
    /\ pc = "idle"
    /\ ent = [val |-> 0]
    /\ opt = NoOption
    /\ calls = <<>>
    /\ lastID = 0
    /\ ret = NoRet
    /\ nops = 0
    /\ args = [db |-> "", name |-> <<>>, val |-> 0]
    /\ frame = [calls |-> <<>>, ret |-> NoRet, ent |-> [val |-> 0]]

\* a caller starts an operation on the handle
firstCall ==
    /\ pc = "idle"
    /\ \E o \in Ops, co \in CacheOptions(typ) :
        /\ op' = o
        /\ opt' = co
        /\ pc' = Flow(o, "entry", Res(NilErr)).pc
        /\ \E v \in (IF o \in {"Load", "Delete"} THEN {0} ELSE Vals) :
            /\ ent' = [val |-> v]
            /\ args' = [db |-> driverName, name |-> <<>>, val |-> v]
    /\ calls' = <<>>
    /\ lastID' = 0
    /\ ret' = NoRet
    /\ nops' = 1
    /\ UNCHANGED <<typ, driverName, DefaultCacher, entities, statements, store, frame>>

\* the caller repeats the operation through a handle of the dialect's other
\* name
secondCall ==
    /\ pc = "done"
    /\ nops = 1
    /\ driverName' = Partner(driverName)
    /\ frame' = [calls |-> calls, ret |-> ret, ent |-> ent]
    /\ ent' = [val |-> args.val]
    /\ pc' = Flow(op, "entry", Res(NilErr)).pc
    /\ calls' = <<>>
    /\ lastID' = 0
    /\ ret' = NoRet
    /\ nops' = 2
    /\ UNCHANGED <<typ, DefaultCacher, entities, statements, store, op, opt, args>>

AliasNext ==
    \/ firstCall
    \/ secondCall
    \/ beforeInsert
    \/ afterInsert
    \/ beforeUpdate
    \/ afterUpdate
    \/ beforeDelete
    \/ afterDelete
    \/ loadCache
    \/ SaveCache
    \/ DeleteCache
    \/ doLoad
    \/ doInsert
    \/ doUpdate
    \/ doUpsert
    \/ doDelete

AliasSpec == AliasInit /\ [][AliasNext]_vars

\* what a call asked of its collaborator, and what it was answered
Asked(c) == [to |-> c.to, fn |-> c.fn, ev |-> c.ev, arg |-> c.arg, stmt |-> c.stmt]

Answered(c) == [err |-> c.err, data |-> c.data, out |-> c.out, n |-> c.n]

\* the collaborators answered the first i calls of both operations alike
SameAnswers(i) == \A j \in 1..i : Answered(frame.calls[j]) = Answered(calls[j])

Shorter == IF Len(calls) < Len(frame.calls) THEN Len(calls) ELSE Len(frame.calls)

\* json.Marshal, which SaveCache calls on the entity, failed in the call
\* that returned r
MarshalFailed(r) == r.err.ctx = <<"save cache", "json encode">>

\* the hooks, the cacher, the DB handle and the encoder answered both
\* operations alike
AnsweredAlike ==
    SameAnswers(Shorter) /\ (MarshalFailed(ret) <=> MarshalFailed(frame.ret))

\* C35: through a handle whose DriverName is an alias (pgx, sqlite) every
\* CRUD operation behaves as through one with the canonical name: against
\* the same answers of hooks, cacher, DB and encoder it makes the same
\* calls with the same statement text and returns the same result (the same
\* conflict classification, the same last-insert-id decision), and the
\* statement caches hold one entry, under the canonical name, for both
C35_AliasAsCanonical ==
    /\ \A c \in Commands : \A k \in DOMAIN statements[c] :
        /\ typ.Name \in DOMAIN entities
        /\ k = statementKey(Md, IF driverName \in DOMAIN driverAlias
                                THEN driverAlias[driverName] ELSE driverName)
        /\ statements[c][k] = newStatement(c, Md, IF driverName \in DOMAIN driverAlias
                                THEN driverAlias[driverName] ELSE driverName)
    /\ nops = 2 =>
        /\ \A i \in 1..Shorter :
            SameAnswers(i - 1) => Asked(frame.calls[i]) = Asked(calls[i])
        /\ (Returned /\ AnsweredAlike) =>
            /\ Len(calls) = Len(frame.calls)
            /\ ret = frame.ret
            /\ ent = frame.ent

\* an Insert through pgx and then through postgres, both answered with a
\* Postgres uniqueness violation, both ErrConflict
C35_Witness ==
    /\ nops = 2 /\ Returned /\ op = "Insert"
    /\ args.db = "pgx" /\ driverName = "postgres"
    /\ SameAnswers(Shorter) /\ Len(calls) = Len(frame.calls)
    /\ \E i \in CallsTo("db") : PatPostgres \in calls[i].err.pats
    /\ ret.err = ErrConflict /\ frame.ret.err = ErrConflict

\* an Insert through sqlite3 and then through sqlite, both asking the
\* result for its id
C35_WitnessLastInsertId ==
    /\ nops = 2 /\ Returned /\ op = "Insert"
    /\ args.db = "sqlite3" /\ driverName = "sqlite"
    /\ SameAnswers(Shorter)
    /\ CallsTo("result") # {} /\ ret.lastID = 2 /\ frame.ret.lastID = 2

\* an Insert through pgx and then through postgres without a call on the
\* result, the statement of the second found in the cache
C35_WitnessNoLastInsertId ==
    /\ nops = 2 /\ Returned /\ op = "Insert" /\ ret.err = NilErr
    /\ args.db = "pgx" /\ driverName = "postgres"
    /\ CallsTo("db") # {} /\ CallsTo("result") = {}
    /\ \E i \in CallsTo("db") : calls[i].fn = "NamedExecContext"
    /\ Cardinality(DOMAIN statements[commandInsert]) = 1

----------------------------------------------------------------------------
(* Quoting an identifier (part_010:415-431).  A behaviour of QuoteSpec     *)
(* takes an identifier of up to MaxChars characters and a driver name,     *)
(* quotes the identifier for the driver's dialect and quotes the result    *)
(* again.                                                                  *)

MaxChars == 4   \* characters of an identifier

\* a letter or two, the dot, the star and the two quote characters
QuoteChars == {"a", "b", ".", "*", BQ, DQ}

QuoteInit ==
    /\ typ = TypeInfo["GenernalEntity"]
    /\ driverName \in DriverNames
    /\ DefaultCacher = "nil"
    /\ entities = <<>>
    /\ statements = [c \in Commands |-> <<>>]
    /\ store = [k \in CacheKeys |-> NoData]
    /\ op = ""
    /\ pc = "idle"
    /\ ent = [val |-> 0]
    /\ opt = NoOption
    /\ calls = <<>>
    /\ lastID = 0
    /\ ret = [err |-> NilErr, lastID |-> 0, stmt |-> <<>>]
    /\ nops = 0
    /\ args \in {[db |-> "", name |-> x] : x \in SeqsUpTo(QuoteChars, MaxChars)}
    /\ frame = [again |-> <<>>]

\* quoteIdentifier(name, dbDriver(db)), as the statement generators call it
quoteCall ==
    /\ pc = "idle"
    /\ pc' = "quoted"
    /\ ret' = [ret EXCEPT !.stmt = quoteIdentifier(args.name, dbDriver(driverName))]
    /\ UNCHANGED <<typ, driverName, DefaultCacher, entities, statements, store, op,
                   ent, opt, calls, lastID, nops, args, frame>>

\* quoteIdentifier of what quoteIdentifier returned
quoteAgain ==
    /\ pc = "quoted"
    /\ pc' = "requoted"
    /\ frame' = [again |-> quoteIdentifier(ret.stmt, dbDriver(driverName))]
    /\ UNCHANGED <<typ, driverName, DefaultCacher, entities, statements, store, op,
                   ent, opt, calls, lastID, ret, nops, args>>

QuoteNext ==
    \/ quoteCall
    \/ quoteAgain

QuoteSpec == QuoteInit /\ [][QuoteNext]_vars

\* the quote character of the dialect of the handle
Symbol == IF dbDriver(driverName) = "mysql" THEN BQ ELSE DQ

\* s is the star, or characters other than the dot and the quote character
\* between two quote characters
IsQuotedSegment(s) ==
    \/ s = <<"*">>
    \/ /\ Len(s) >= 2
       /\ s[1] = Symbol /\ s[Len(s)] = Symbol
       /\ \A j \in 2..(Len(s) - 1) : s[j] \notin {Symbol, "."}
       /\ SubSeq(s, 2, Len(s) - 1) # <<"*">>

\* C36: for every identifier x and dialect d, quoteIdentifier removes the
\* dialect's quote character from x (backtick for mysql, double quote for
\* every other driver), splits on the dot, wraps every segment except a
\* literal star in the quote character and rejoins with the dot; quoting
\* the result again gives the result
C36_QuoteIdentifier ==
    pc \in {"quoted", "requoted"} =>
        /\ RemoveAll(ret.stmt, Symbol) = RemoveAll(args.name, Symbol)
        /\ \A i \in 1..Len(Split(ret.stmt, ".")) :
            IsQuotedSegment(Split(ret.stmt, ".")[i])
        /\ pc = "requoted" => frame.again = ret.stmt

\* the name a.* with a stray double quote in front, for Postgres: the quote
\* is dropped, a is quoted, the star is not, and quoting again changes
\* nothing
C36_Witness ==
    /\ pc = "requoted" /\ driverName = "postgres"
    /\ args.name = <<DQ, "a", ".", "*">>
    /\ ret.stmt = <<DQ, "a", DQ, ".", "*">>
    /\ frame.again = <<DQ, "a", DQ, ".", "*">>

\* for MySQL the double quote stays in the name and the backtick goes
C36_WitnessMysql ==
    /\ pc = "requoted" /\ driverName = "mysql"
    /\ args.name = <<BQ, "a", DQ, ".">>
    /\ ret.stmt = <<BQ, "a", DQ, BQ, ".", BQ, BQ>>
    /\ frame.again = ret.stmt

====
